---- MODULE Spec2Model ----
(***************************************************************************)
(* A model of zustand-immer-lite: the query cache of createQueryHook       *)
(* (keyed entries, request ids, staleness, deduplication, LRU eviction)    *)
(* and the dependency-tracking computed engine of create().                *)
(*                                                                         *)
(* SpecSettle, SpecEnsure, SpecStale, SpecEvict : the query cache          *)
(*     (src/unnamed/part_001, lines 1-179), each recording in `last` the   *)
(*     steps its properties speak about.                                   *)
(* SpecComputed : the computed engine (src/unnamed/part_002, 410-596).     *)
(***************************************************************************)
EXTENDS Integers, Sequences, FiniteSets, TLC

(***************************************************************************)
(* Bounds of the model.                                                    *)
(***************************************************************************)
\* ids a run may allocate (nextRequestId is unbounded in the code)
MaxRequests == 2
\* the clock Date.now() runs over 1..MaxTime
MaxTime == 3
\* eviction microtasks that may be queued at once
MaxEvictQueue == 1

(***************************************************************************)
(* Configuration of the modelled query hook (QueryConfig).                 *)
(***************************************************************************)
maxCacheSize == 1
staleTime == 2

Keys == {"k1", "k2"}

\* the listeners (one per mounted component) that may subscribe to a key
Listeners == {"l1"}

\* What config.fn may resolve with: two distinct payloads, or nothing.
Undefined == "undefined"
Payloads == {"d1", "d2"}
ResolveValues == Payloads \cup {Undefined}

\* What config.fn may reject with: an Error object, or a value that is none.
ErrorObjects == {"Error: net"}
Rejections == ErrorObjects \cup {"boom"}
NoError == "null"

(***************************************************************************)
(* State.                                                                  *)
(***************************************************************************)
VARIABLES
    cache,          \* Map<string, CacheEntry>: a function on the keys it holds
    listeners,      \* Map<string, Set<() => void>>: per key, its listener set
    snapshotCache,  \* Map<string, {entry, snapshot}>
    inflightId,     \* Map<string, number>
    accessOrder,    \* string[]: the access-order ledger, oldest first
    nextRequestId,  \* the request id counter
    pending,        \* the calls of config.fn that have not settled yet
    promise,        \* per request id, the state of the promise fetchData returned
    evictQueue,     \* the number of queued eviction microtasks
    now,            \* Date.now()
    lastIssued,     \* history: per key, the latest request id issued for it
    succeededAt,    \* history: per key, when a fetch last resolved (0: never)
    appliedAt,      \* history: per key, when the entry it holds last took
                    \* defined data from a fetch (0: it never did)
    last,           \* history: the step taken last and its outcome
    watch           \* which steps `last` records (fixed by the specification)

qvars == <<cache, listeners, snapshotCache, inflightId, accessOrder,
           nextRequestId, pending, promise, evictQueue, now, lastIssued,
           succeededAt, appliedAt, last, watch>>

\* create(): the store and its computed engine
VARIABLES
    rawState,       \* the raw state: a function on the fields it holds
    prevRawState,   \* the raw state of the previous recompute pass
    deps,           \* Map<string, Set<string>>: what each derivation read last
    cachedResults,  \* Map<string, any>: each derivation's cached value
    exposedState,   \* what getState() returns: raw fields and computed values
    invoked,        \* history: the derivations the last pass invoked
    changed,        \* history: the raw fields the last commit changed
    storeListeners, \* listeners: Set<() => void>, in insertion order
    previousValue,  \* previousValue of each selector subscription
    storage,        \* the storage item under config.persist.name
    persist,        \* config.persist
    notified,       \* history: what the last call's notify() did
    call            \* history: the last call on the store (recorded when watched)

cvars == <<rawState, prevRawState, deps, cachedResults, exposedState, invoked, changed,
           storeListeners, previousValue, storage, persist, notified, call>>

\* createInfiniteQueryHook: the infinite cache
VARIABLES
    infCache,          \* Map<string, InfiniteCacheEntry>, with its insertion order
    infCacheOrder,     \* the keys of infCache in insertion order (Map iteration)
    infListeners,      \* Map<string, Set<() => void>>
    infSnapshotCache,  \* Map<string, {entry, snapshot}>
    infInflightId,     \* Map<string, number>
    infAccessOrder,    \* string[]: the access-order ledger, oldest first
    infNextRequestId,  \* the request id counter of fetchInitial
    infPending,        \* the calls of config.fn that have not settled yet
    infEvictQueue,     \* the number of queued eviction microtasks
    infIssued          \* history: how many calls of config.fn were made

ivars == <<infCache, infCacheOrder, infListeners, infSnapshotCache, infInflightId,
           infAccessOrder, infNextRequestId, infPending, infEvictQueue, infIssued>>

\* optimisticUpdate: the calls made so far, in order, each with its key, the
\* data it snapshotted, its callbacks so far and the state of its promise
VARIABLES optimistic
ovars == <<optimistic>>

\* one consuming instance of a mutation hook: its {data, loading, error}, the
\* callbacks called so far, in order, and every invocation with the state of
\* fn's promise and of the promise handed back to the caller
VARIABLES mutation
mvars == <<mutation>>

vars == <<qvars, cvars, ivars, ovars, mvars>>

(***************************************************************************)
(* Maps.                                                                   *)
(***************************************************************************)
Put(m, k, v) == [x \in (DOMAIN m) \cup {k} |-> IF x = k THEN v ELSE m[x]]
Drop(m, ks) == [x \in (DOMAIN m) \ ks |-> m[x]]
EmptyMap == [x \in {} |-> 0]
SeqSet(s) == {s[i] : i \in 1..Len(s)}

(***************************************************************************)
(* createQueryHook: helpers.                                               *)
(***************************************************************************)
\* getEntry's default entry
DefaultEntry == [data |-> Undefined, loading |-> FALSE, error |-> NoError, fetchedAt |-> 0]

\* getEntry(key): the entry the call returns
getEntry(c, key) == IF key \in DOMAIN c THEN c[key] ELSE DefaultEntry

\* getEntry(key): the cache after the call (a missing entry is created)
withEntry(c, key) == IF key \in DOMAIN c THEN c ELSE Put(c, key, DefaultEntry)

\* a touch that pushes the key without removing its earlier place
touchKeyPushOnly(order, key) == Append(order, key)
touchKey(order, key) == Append(SelectSeq(order, LAMBDA x : x # key), key)

\* the snapshot cache after setEntry(key, entry)
setSnapshot(sc, key, entry) ==
    IF /\ key \in DOMAIN sc
       /\ sc[key].entry.data = entry.data
       /\ sc[key].entry.loading = entry.loading
       /\ sc[key].entry.error = entry.error
    THEN Put(sc, key, [entry |-> entry, snapshot |-> sc[key].snapshot])
    ELSE Put(sc, key, [entry |-> entry, snapshot |-> entry])

\* setEntry(key, entry): cache.set, touchKey, snapshot cache (notify changes no state)
setEntry(key, entry) ==
    /\ cache' = Put(cache, key, entry)
    /\ accessOrder' = touchKey(accessOrder, key)
    /\ snapshotCache' = setSnapshot(snapshotCache, key, entry)

\* e instanceof Error ? e : new Error(String(e))
ToError(e) == IF e \in ErrorObjects THEN e ELSE "Error: " \o e

(***************************************************************************)
(* evict.                                                                  *)
(***************************************************************************)
\* a variant of the test that forgets the listeners: C4 tells it from the code
evictableIgnoringListeners(key) ==
    /\ key \in DOMAIN cache
    /\ ~cache[key].loading

\* the test of the scan: no active listeners, an entry, not loading
evictable(key) ==
    /\ listeners[key] = {}
    /\ key \in DOMAIN cache
    /\ ~cache[key].loading

\* the scan over accessOrder, oldest first, collecting toRemove
RECURSIVE evictScan(_, _)
evictScan(order, toRemove) ==
    IF order = <<>> \/ Cardinality(DOMAIN cache) - Len(toRemove) <= maxCacheSize
    THEN toRemove
    ELSE evictScan(Tail(order),
                   IF evictable(Head(order)) THEN Append(toRemove, Head(order))
                                             ELSE toRemove)

\* evict(): the keys one pass removes, in the order it picks them
evictList ==
    IF Cardinality(DOMAIN cache) <= maxCacheSize THEN <<>>
    ELSE evictScan(accessOrder, <<>>)

(***************************************************************************)
(* fetchData: its guards.                                                  *)
(***************************************************************************)
\* a variant without the staleness guard: C3 tells it from the code
freshSkipNever(entry, force) == FALSE

\* data is still fresh: return without fetching
freshSkip(entry, force) ==
    /\ ~force
    /\ entry.data # Undefined
    /\ entry.fetchedAt > 0
    /\ now - entry.fetchedAt < staleTime

\* a variant without the loading guard, as in the first version of fetchData
\* (part_001, 245-255): C2 tells it from the code
dedupSkipNever(entry, force) == FALSE

\* already loading: return without fetching
dedupSkip(entry, force) == ~force /\ entry.loading

\* a variant that applies no settled request
isLatestNever(key, requestId) == FALSE

\* a variant that applies every settled request, as the first version of
\* fetchData does (part_001, 257-263): C1 tells it from the code
isLatestAlways(key, requestId) == TRUE

\* a settled request is applied only if it is still the in-flight one
isLatest(key, requestId) == key \in DOMAIN inflightId /\ inflightId[key] = requestId

\* the entry fetchData sets before it calls config.fn
loadingEntry(entry) == [entry EXCEPT !.loading = TRUE, !.error = NoError]

\* the entry fetchData sets when config.fn resolved with data
resolvedEntry(data) == [data |-> data, loading |-> FALSE, error |-> NoError, fetchedAt |-> now]

\* a variant that does not spread the previous entry: C7 tells it from the code
rejectedEntryFresh(prev, e) == [DefaultEntry EXCEPT !.error = ToError(e)]

\* the entry fetchData sets when config.fn rejected with e
rejectedEntry(prev, e) == [prev EXCEPT !.loading = FALSE, !.error = ToError(e)]

\* the catch block handles the rejection and rethrows nothing: the promise
\* fetchData returned is fulfilled
caught == "fulfilled"

\* the time histories are kept only where the specification watches staleness
Timed(h, key, t) == IF "fresh" \in watch THEN [h EXCEPT ![key] = t] ELSE h

\* `last` after a step: what happened, if the specification watches it
NoStep == [op |-> "other", key |-> "", id |-> 0, removed |-> {}]
Step(op, key, id, removed) ==
    IF op \in watch THEN [op |-> op, key |-> key, id |-> id, removed |-> removed]
    ELSE NoStep

(***************************************************************************)
(* The operations of the query cache.                                      *)
(***************************************************************************)
\* useSyncExternalStore's subscribe(listener)
Subscribe(key, listener) ==
    /\ listener \notin listeners[key]
    /\ listeners' = [listeners EXCEPT ![key] = @ \cup {listener}]
    /\ last' = IF last.op = "lost" /\ last.key = key
               THEN Step("regained", key, 0, {})
               ELSE NoStep
    /\ UNCHANGED <<cache, snapshotCache, inflightId, accessOrder, nextRequestId,
                   pending, evictQueue, now, lastIssued, watch, cvars, mvars, ivars, ovars, succeededAt, appliedAt, promise>>

\* the unsubscribe function: delete the listener, queue evict as a microtask
Unsubscribe(key, listener) ==
    /\ listener \in listeners[key]
    /\ evictQueue < MaxEvictQueue
    /\ listeners' = [listeners EXCEPT ![key] = @ \ {listener}]
    /\ evictQueue' = evictQueue + 1
    /\ last' = IF listeners[key] = {listener} THEN Step("lost", key, 0, {}) ELSE NoStep
    /\ UNCHANGED <<cache, snapshotCache, inflightId, accessOrder, nextRequestId,
                   pending, now, lastIssued, watch, cvars, mvars, ivars, ovars, succeededAt, appliedAt, promise>>

\* getSnapshot(key): a render or a listener reads the entry
GetSnapshot(key) ==
    /\ cache' = withEntry(cache, key)
    /\ snapshotCache' =
          IF key \in DOMAIN snapshotCache /\ snapshotCache[key].entry = getEntry(cache, key)
          THEN snapshotCache
          ELSE Put(snapshotCache, key,
                   [entry |-> getEntry(cache, key), snapshot |-> getEntry(cache, key)])
    /\ last' = NoStep
    /\ UNCHANGED <<listeners, inflightId, accessOrder, nextRequestId, pending,
                   evictQueue, now, lastIssued, watch, cvars, mvars, ivars, ovars, succeededAt, appliedAt, promise>>

\* fetchData(key, args, force) up to its await: the mount effect (force = FALSE),
\* refetch and the refetch interval (force = TRUE)
FetchData(key, force) ==
    LET entry == getEntry(cache, key)
        requestId == nextRequestId + 1
    IN  IF freshSkip(entry, force)
        THEN /\ last' = Step("fresh", key, 0, {})
             /\ UNCHANGED <<cache, listeners, snapshotCache, inflightId, accessOrder,
                            nextRequestId, pending, evictQueue, now, lastIssued, watch, cvars, mvars, ivars, ovars, succeededAt, appliedAt, promise>>
        ELSE IF dedupSkip(entry, force)
        THEN /\ last' = Step("dedup", key, 0, {})
             /\ UNCHANGED <<cache, listeners, snapshotCache, inflightId, accessOrder,
                            nextRequestId, pending, evictQueue, now, lastIssued, watch, cvars, mvars, ivars, ovars, succeededAt, appliedAt, promise>>
        ELSE /\ nextRequestId < MaxRequests
             /\ nextRequestId' = requestId
             /\ inflightId' = Put(inflightId, key, requestId)
             /\ setEntry(key, loadingEntry(entry))
             /\ pending' = pending \cup {[key |-> key, id |-> requestId]}
             /\ lastIssued' = [lastIssued EXCEPT ![key] = requestId]
             /\ last' = Step(IF force THEN "refetch" ELSE "fetch", key, requestId, {})
             /\ promise' = Put(promise, requestId, "pending")
             /\ UNCHANGED <<listeners, evictQueue, now, watch, cvars, mvars, ivars, ovars, succeededAt, appliedAt>>

\* config.fn resolved with data: fetchData resumes after its await
Resolve(r, data) ==
    /\ r \in pending
    /\ pending' = pending \ {r}
    /\ IF isLatest(r.key, r.id)
       THEN /\ setEntry(r.key, resolvedEntry(data))
            /\ appliedAt' = Timed(appliedAt, r.key, IF data # Undefined THEN now ELSE 0)
            /\ last' = Step("resolved", r.key, r.id, {})
       ELSE /\ last' = Step("discarded", r.key, r.id, {})
            /\ UNCHANGED <<cache, accessOrder, snapshotCache, appliedAt>>
    /\ succeededAt' = Timed(succeededAt, r.key, now)
    /\ promise' = Put(promise, r.id, "fulfilled")
    /\ UNCHANGED <<listeners, inflightId, nextRequestId, evictQueue, now, lastIssued, watch, cvars, mvars, ivars, ovars>>

\* config.fn rejected with e: fetchData resumes in its catch
Reject(r, e) ==
    /\ r \in pending
    /\ pending' = pending \ {r}
    /\ IF isLatest(r.key, r.id)
       THEN /\ setEntry(r.key, rejectedEntry(getEntry(cache, r.key), e))
            /\ last' = Step("rejected", r.key, r.id, {})
       ELSE /\ last' = Step("discarded", r.key, r.id, {})
            /\ UNCHANGED <<cache, accessOrder, snapshotCache>>
    /\ promise' = Put(promise, r.id, caught)
    /\ UNCHANGED <<listeners, inflightId, nextRequestId, evictQueue, now, lastIssued, watch, cvars, mvars, ivars, ovars, succeededAt, appliedAt>>

\* the queued microtask runs evict()
EvictPass ==
    /\ evictQueue > 0
    /\ LET removed == SeqSet(evictList)
       IN  /\ cache' = Drop(cache, removed)
           /\ snapshotCache' = Drop(snapshotCache, removed)
           /\ inflightId' = Drop(inflightId, removed)
           /\ accessOrder' = SelectSeq(accessOrder, LAMBDA x : x \notin removed)
           /\ last' = Step(IF last.op = "regained" THEN "evict-regained" ELSE "evict",
                           IF last.op = "regained" THEN last.key ELSE "", 0, removed)
           /\ appliedAt' = [k \in Keys |-> IF k \in removed THEN 0 ELSE appliedAt[k]]
    /\ evictQueue' = evictQueue - 1
    /\ UNCHANGED <<listeners, nextRequestId, pending, promise, now, lastIssued, watch, cvars, mvars, ivars, ovars, succeededAt>>

\* time passes
Tick ==
    /\ now < MaxTime
    /\ now' = now + 1
    /\ last' = NoStep
    /\ UNCHANGED <<cache, listeners, snapshotCache, inflightId, accessOrder,
                   nextRequestId, pending, evictQueue, lastIssued, watch, cvars, mvars, ivars, ovars, succeededAt, appliedAt, promise>>

(***************************************************************************)
(* create(): the configuration of the modelled store.                      *)
(*   state:    { price, taxRate, count }                                   *)
(*   computed: { tax:        s => s.price * s.taxRate,                     *)
(*               total:      s => s.price + s.tax,                         *)
(*               isPositive: s => s.count > 0 ? 1 : 0,                     *)
(*               sign:       s => s.count === 0 ? 0 : s.isPositive,        *)
(*               version:    s => 1 }                                      *)
(***************************************************************************)
Fields == {"price", "taxRate", "count"}
FieldValues == {0, 1, 2}
computedKeys == <<"tax", "total", "isPositive", "sign", "version">>

\* JavaScript's undefined (a missing property) and NaN, among the numbers
JsUndefined == -1
JsNaN == -2

IsNumber(v) == v # JsUndefined /\ v # JsNaN
JsMul(a, b) == IF IsNumber(a) /\ IsNumber(b) THEN a * b ELSE JsNaN
JsAdd(a, b) == IF IsNumber(a) /\ IsNumber(b) THEN a + b ELSE JsNaN
JsGreater(a, b) == IsNumber(a) /\ IsNumber(b) /\ a > b

\* a raw state that is not an object but a number n is held as Primitive(n);
\* Object.keys of it is empty, spreading it adds nothing, reading a
\* property of it gives undefined
Primitive(n) == [primitive |-> n]
IsPrimitive(obj) == "primitive" \in DOMAIN obj
OwnKeys(obj) == (DOMAIN obj) \ {"primitive"}

\* Reflect.get(target, prop): a missing property reads as undefined
Get(obj, prop) == IF prop \in OwnKeys(obj) THEN obj[prop] ELSE JsUndefined

\* { ...a, ...b }
Spread(a, b) == [x \in OwnKeys(a) \cup OwnKeys(b) |-> IF x \in OwnKeys(b) THEN b[x] ELSE a[x]]

\* trackDeps(config.computed[key], stateObj): the result, and the properties
\* the function read through the Proxy
trackDeps(key, stateObj) ==
    CASE key = "tax" ->
           [result |-> JsMul(Get(stateObj, "price"), Get(stateObj, "taxRate")),
            accessed |-> {"price", "taxRate"}]
      [] key = "total" ->
           [result |-> JsAdd(Get(stateObj, "price"), Get(stateObj, "tax")),
            accessed |-> {"price", "tax"}]
      [] key = "isPositive" ->
           [result |-> IF JsGreater(Get(stateObj, "count"), 0) THEN 1 ELSE 0,
            accessed |-> {"count"}]
      [] key = "sign" ->
           IF Get(stateObj, "count") = 0
           THEN [result |-> 0, accessed |-> {"count"}]
           ELSE [result |-> Get(stateObj, "isPositive"),
                 accessed |-> {"count", "isPositive"}]
      [] key = "version" ->
           [result |-> 1, accessed |-> {}]

\* recompute: the raw keys that changed since the previous pass
changedRawKeys(raw, prev, first) ==
    IF first THEN OwnKeys(raw)
    ELSE {k \in OwnKeys(raw) : raw[k] # Get(prev, k)}

\* a variant that never reuses a cached result: C8 tells it from the code
reuseCachedNever(key, d, cached, changedKeys) == FALSE

\* a variant that also reuses the result of a derivation that read nothing
reuseCachedEmptyDeps(key, d, cached, changedKeys) ==
    /\ key \in DOMAIN cached
    /\ key \in DOMAIN d
    /\ d[key] \cap changedKeys = {}

\* recompute: reuse the cached result of `key`?
reuseCached(key, d, cached, changedKeys) ==
    /\ key \in DOMAIN cached
    /\ key \in DOMAIN d
    /\ d[key] # {}
    /\ d[key] \cap changedKeys = {}

\* a variant that never propagates a changed result: C9 tells it from the code
marksChangedNever(result, key, cached) == FALSE

\* recompute: does the new result mark `key` as changed?
marksChanged(result, key, cached) == result # Get(cached, key)

\* recompute: the loop over computedKeys, from the i-th on. acc holds
\* changedKeys, stateObj, deps, cachedResults and the derivations invoked.
RECURSIVE recomputeFrom(_, _)
recomputeFrom(i, acc) ==
    IF i > Len(computedKeys) THEN acc
    ELSE LET key == computedKeys[i]
         IN  IF reuseCached(key, acc.deps, acc.cached, acc.changedKeys)
             THEN recomputeFrom(i + 1,
                      [acc EXCEPT !.stateObj = Put(@, key, acc.cached[key])])
             ELSE LET t == trackDeps(key, acc.stateObj)
                  IN  recomputeFrom(i + 1,
                          [changedKeys |-> IF marksChanged(t.result, key, acc.cached)
                                           THEN acc.changedKeys \cup {key}
                                           ELSE acc.changedKeys,
                           stateObj |-> Put(acc.stateObj, key, t.result),
                           deps |-> Put(acc.deps, key, t.accessed),
                           cached |-> Put(acc.cached, key, t.result),
                           invoked |-> acc.invoked \cup {key}])

\* recompute(): one pass over the raw state `raw`
recompute(raw, prev, first, d, cached) ==
    recomputeFrom(1, [changedKeys |-> changedRawKeys(raw, prev, first),
                      stateObj |-> Spread(raw, EmptyMap),
                      deps |-> d,
                      cached |-> cached,
                      invoked |-> {}])

(***************************************************************************)
(* subscribe and notify. The listeners of the modelled runs:               *)
(*   b, c:     plain listeners that only read getState()                   *)
(*   unsubB:   a plain listener that calls b's unsubscribe function        *)
(*   subC:     a plain listener that calls subscribe(c)                    *)
(*   selCount: subscribe(s => s.count, callback)                           *)
(*   selNear:  subscribe(s => s.price, callback,                           *)
(*                       { equalityFn: (x, y) => Math.abs(x - y) <= 1 })   *)
(***************************************************************************)
PlainListeners == {"b", "c", "unsubB", "subC"}
SelectorListeners == {"selCount", "selNear"}

\* selector(state) of a selector subscription
selector(l, state) == IF l = "selNear" THEN Get(state, "price") ELSE Get(state, "count")

\* options?.equalityFn ?? Object.is
equalityFn(l, x, y) ==
    IF l = "selNear"
    THEN IsNumber(x) /\ IsNumber(y) /\ x - y <= 1 /\ y - x <= 1
    ELSE x = y

\* a call of a plain listener, or of a selector subscription's callback, with
\* what getState() returned inside it
Invocation(l, seen, args) == [listener |-> l, seen |-> seen, args |-> args]

\* listeners.delete(fn)
SeqWithout(seq, x) == SelectSeq(seq, LAMBDA y : y # x)
\* listeners.add(fn)
SeqWith(seq, x) == IF x \in SeqSet(seq) THEN seq ELSE Append(seq, x)

\* a subscription that takes every pass's value as its previous value
deliveredValueAlways(previous, currentValue, equal) == currentValue
\* internalListener: previousValue after the call
deliveredValue(previous, currentValue, equal) == IF equal THEN previous ELSE currentValue

\* fn(): one listener of the pass; st holds the Set, the previousValue of
\* the selector subscriptions and the calls made so far
invoke(l, st, snapshot) ==
    IF l \in SelectorListeners
    THEN LET currentValue == selector(l, snapshot)
             prev == st.previousValue[l]
             equal == equalityFn(l, currentValue, prev)
         IN  [listeners |-> st.listeners,
              previousValue |-> Put(st.previousValue, l, deliveredValue(prev, currentValue, equal)),
              invocations |-> IF equal THEN st.invocations
                              ELSE Append(st.invocations,
                                          Invocation(l, snapshot, <<currentValue, prev>>))]
    ELSE [listeners |-> CASE l = "unsubB" -> SeqWithout(st.listeners, "b")
                          [] l = "subC" -> SeqWith(st.listeners, "c")
                          [] OTHER -> st.listeners,
          previousValue |-> st.previousValue,
          invocations |-> Append(st.invocations, Invocation(l, snapshot, <<>>))]

\* listeners.forEach((fn) => fn()), from the i-th element of the Set on: the
\* Set is walked as it is at each moment, so an element deleted before its
\* turn is not visited and one added during the walk is
RECURSIVE forEach(_, _, _)
forEach(i, st, snapshot) ==
    IF i > Len(st.listeners) THEN st
    ELSE LET after == invoke(st.listeners[i], st, snapshot)
             gone == {j \in 1..i : st.listeners[j] \notin SeqSet(after.listeners)}
         IN  forEach(i + 1 - Cardinality(gone), after, snapshot)

(***************************************************************************)
(* persist (src/unnamed/part_002, lines 314-379). The modelled options:    *)
(*   partialize: none or (s) => ({ count: s.count })                       *)
(*   migrate:    none or (p, v) => ({ ...p, count: v })                    *)
(*   merge:      none or (p, c) => ({ ...p, ...c }) or (p) => p            *)
(***************************************************************************)
JsNull == -3

\* storage.getItem(name): null, a string JSON.parse throws on, or the JSON
\* text of { state, version }
NoItem == [kind |-> "null", state |-> EmptyMap, version |-> 0]
Unparsable == [kind |-> "unparsable", state |-> EmptyMap, version |-> 0]
Json(state, version) == [kind |-> "json", state |-> state, version |-> version]

\* a store without config.persist
NoPersist == [enabled |-> FALSE, version |-> 0, partialize |-> "none",
              migrate |-> "none", merge |-> "none"]

\* a persistState that ignores config.partialize
partializeNothing(cfg, state) == state
\* config.partialize ?? ((s) => s)
partialize(cfg, state) ==
    IF cfg.partialize = "none" THEN state ELSE [f \in {"count"} |-> Get(state, "count")]

\* JSON.parse(JSON.stringify(value)): a property holding undefined is
\* dropped, NaN becomes null
stringify(value) ==
    IF IsPrimitive(value) THEN value
    ELSE [k \in {x \in DOMAIN value : value[x] # JsUndefined} |->
             IF value[k] = JsNaN THEN JsNull ELSE value[k]]

\* persistState(state, config): what storage.setItem stores
persistState(state, cfg) == Json(stringify(partialize(cfg, state)), cfg.version)

\* config.migrate(persistedState, stored.version)
migrate(cfg, persisted, version) == Put(persisted, "count", version)

\* config.merge ?? ((persisted, current) => ({ ...current, ...persisted }))
merge(cfg, persisted, current) ==
    CASE cfg.merge = "none" -> Spread(current, persisted)
      [] cfg.merge = "currentWins" -> Spread(persisted, current)
      [] cfg.merge = "persistedOnly" -> persisted

\* hydrateState(currentState, config), blob what storage.getItem returns
hydrateState(currentState, cfg, blob) ==
    IF blob.kind # "json" THEN currentState
    ELSE IF blob.version # cfg.version
         THEN IF cfg.migrate # "none"
              THEN merge(cfg, migrate(cfg, blob.state, blob.version), currentState)
              ELSE currentState
         ELSE merge(cfg, blob.state, currentState)

\* what a call's notify() did: the calls of listeners, in order, and whether
\* persistState wrote the storage item
NoNotify == [invocations |-> <<>>, wrote |-> FALSE]

\* a pass whose listeners read the snapshot of before the commit
getStateStale(before, after) == before
\* getState() inside a listener of the pass: recompute() ran before notify()
getState(before, after) == after

\* notify(): listeners.forEach((fn) => fn()), then persistState
notify(raw, snapshot) ==
    LET pass == forEach(1, [listeners |-> storeListeners,
                            previousValue |-> previousValue,
                            invocations |-> <<>>], snapshot)
    IN  /\ storeListeners' = pass.listeners
        /\ previousValue' = pass.previousValue
        /\ storage' = IF persist.enabled THEN persistState(raw, persist) ELSE storage
        /\ notified' = [invocations |-> pass.invocations, wrote |-> persist.enabled]
        /\ persist' = persist

\* rawState = nextRaw; recompute(); notify()
commitState(nextRaw) ==
    LET pass == recompute(nextRaw, prevRawState, FALSE, deps, cachedResults)
    IN  /\ rawState' = nextRaw
        /\ prevRawState' = nextRaw
        /\ deps' = pass.deps
        /\ cachedResults' = pass.cached
        /\ exposedState' = Spread(nextRaw, pass.cached)
        /\ invoked' = pass.invoked
        /\ changed' = {f \in Fields : Get(nextRaw, f) # Get(rawState, f)}
        /\ notify(nextRaw, getState(exposedState, Spread(nextRaw, pass.cached)))

\* a call that threw before anything was assigned
threw ==
    /\ UNCHANGED <<rawState, prevRawState, deps, cachedResults, exposedState, invoked,
                   changed, storeListeners, previousValue, storage, persist>>
    /\ notified' = NoNotify

\* the mutators of the modelled runs: draft.field = value, delete draft.field,
\* and two that throw, one of them after a write to the draft
Mutators == [op : {"assign"}, field : Fields, value : FieldValues]
            \cup [op : {"delete"}, field : Fields]
ThrowingMutators == [op : {"throw"}, field : {"count"}]
                    \cup [op : {"assignThenThrow"}, field : {"count"}, value : FieldValues]

\* a producer that lets no exception out
throwsNever(base, m) == FALSE
\* does produce(base, mutator) throw? The mutator may throw itself, and a
\* write to a property of a number throws a TypeError in strict mode
throws(base, m) ==
    \/ m.op \in {"throw", "assignThenThrow"}
    \/ m.op = "assign" /\ IsPrimitive(base)

\* produce(rawState, mutator): Immer applies the draft's writes to a copy
produce(base, m) ==
    CASE m.op \in {"assign", "assignThenThrow"} -> Put(base, m.field, m.value)
      [] m.op = "delete" -> Drop(base, {m.field})
      [] OTHER -> base

\* history: the call, its argument and whether it threw
NoCall == [op |-> "none", arg |-> EmptyMap, threw |-> FALSE]
Called(op, arg, t) ==
    IF "store" \in watch THEN [op |-> op, arg |-> arg, threw |-> t] ELSE NoCall

\* setState(partial) merges any non-empty choice of fields
Partials == UNION {[fs -> FieldValues] : fs \in (SUBSET Fields) \ {{}}}

(***************************************************************************)
(* The operations of the store.                                            *)
(***************************************************************************)
\* setState(updater), updater a function: produce, recompute, notify
SetStateDraft(m) ==
    /\ IF throws(rawState, m) THEN threw ELSE commitState(produce(rawState, m))
    /\ call' = Called("setState", m, throws(rawState, m))
    /\ UNCHANGED <<qvars, ivars, ovars, mvars>>

\* a setState that replaces the raw state by the object it is given
mergedStateReplacing(raw, partial) == partial
\* setState(updater), updater an object: { ...rawState, ...updater }
mergedState(raw, partial) == Spread(raw, partial)

\* setState(updater), updater an object: shallow merge, recompute, notify
SetStateMerge(partial) ==
    /\ commitState(mergedState(rawState, partial))
    /\ call' = Called("setState", partial, FALSE)
    /\ UNCHANGED <<qvars, ivars, ovars, mvars>>

\* setState(updater), updater neither a function nor an object: a number
SetStateReplace(n) ==
    /\ commitState(Primitive(n))
    /\ call' = Called("setState", Primitive(n), FALSE)
    /\ UNCHANGED <<qvars, ivars, ovars, mvars>>

\* a bound action: produce over the draft, then commitState
Action(m) ==
    /\ IF throws(rawState, m) THEN threw ELSE commitState(produce(rawState, m))
    /\ call' = Called("action", m, throws(rawState, m))
    /\ UNCHANGED <<qvars, ivars, ovars, mvars>>

\* a bound effect ({ set }, partial) => set(partial): set is setState
Effect(partial) ==
    /\ commitState(mergedState(rawState, partial))
    /\ call' = Called("effect", partial, FALSE)
    /\ UNCHANGED <<qvars, ivars, ovars, mvars>>

\* subscribe(listener)
SubscribeListener(l) ==
    /\ l \in PlainListeners
    /\ l \notin SeqSet(storeListeners)
    /\ storeListeners' = Append(storeListeners, l)
    /\ notified' = NoNotify
    /\ call' = Called("subscribe", Primitive(0), FALSE)
    /\ UNCHANGED <<rawState, prevRawState, deps, cachedResults, exposedState, invoked,
                   changed, previousValue, storage, persist>>
    /\ UNCHANGED <<qvars, ivars, ovars, mvars>>

\* subscribe(selector, callback, options)
SubscribeSelector(l, fireImmediately) ==
    /\ l \in SelectorListeners
    /\ l \notin SeqSet(storeListeners)
    /\ LET value == selector(l, exposedState)
       IN  /\ previousValue' = Put(previousValue, l, value)
           /\ notified' = [NoNotify EXCEPT !.invocations =
                              IF fireImmediately
                              THEN <<Invocation(l, exposedState, <<value, value>>)>>
                              ELSE <<>>]
    /\ storeListeners' = Append(storeListeners, l)
    /\ call' = Called("subscribe", Primitive(0), FALSE)
    /\ UNCHANGED <<rawState, prevRawState, deps, cachedResults, exposedState, invoked,
                   changed, storage, persist>>
    /\ UNCHANGED <<qvars, ivars, ovars, mvars>>

\* the function subscribe returned: listeners.delete(listener)
UnsubscribeListener(l) ==
    /\ l \in SeqSet(storeListeners)
    /\ storeListeners' = SeqWithout(storeListeners, l)
    /\ previousValue' = Drop(previousValue, {l})
    /\ notified' = NoNotify
    /\ call' = Called("unsubscribe", Primitive(0), FALSE)
    /\ UNCHANGED <<rawState, prevRawState, deps, cachedResults, exposedState, invoked,
                   changed, storage, persist>>
    /\ UNCHANGED <<qvars, ivars, ovars, mvars>>

\* create(config) with config.persist, blob being in the storage: the
\* first recompute, hydrateState, the second recompute
InitStorePersisted(state, cfg, blob) ==
    LET first == recompute(state, EmptyMap, TRUE, EmptyMap, EmptyMap)
        hydrated == hydrateState(state, cfg, blob)
        pass == IF cfg.enabled
                THEN recompute(hydrated, state, FALSE, first.deps, first.cached)
                ELSE first
        raw == IF cfg.enabled THEN hydrated ELSE state
    IN  /\ rawState = raw
        /\ prevRawState = raw
        /\ deps = pass.deps
        /\ cachedResults = pass.cached
        /\ exposedState = Spread(raw, pass.cached)
        /\ invoked = pass.invoked
        /\ changed = Fields
        /\ storeListeners = <<>>
        /\ previousValue = EmptyMap
        /\ storage = blob
        /\ persist = cfg
        /\ notified = NoNotify

\* create(config): the state after construction, the first recompute done
InitStoreWith(state) ==
    /\ InitStorePersisted(state, NoPersist, NoItem)
    /\ call = NoCall

\* the store while a specification of the query cache runs
StoreIdle == InitStoreWith([f \in Fields |-> 0])

(***************************************************************************)
(* createInfiniteQueryHook (src/unnamed/part_002, lines 1-313).            *)
(* The modelled hook pages over a list a, b, c: config.fn without a cursor *)
(* returns page b, and with a cursor the page the cursor names.            *)
(*   getNextPageParam:     (lastPage) => lastPage?.nextCursor              *)
(*   getPreviousPageParam: (firstPage) => firstPage?.prevCursor            *)
(***************************************************************************)
\* calls of config.fn a run may make (unbounded in the code)
MaxInfRequests == 3

Null == "null"

\* data: InfiniteData<T> | undefined; the undefined one
NoData == [undefined |-> TRUE]
PageNames == {"a", "b", "c"}

\* config.fn(...args, cursor): the page it resolves with
PageFor(cursor) == IF cursor = Undefined THEN "b" ELSE cursor

\* page.nextCursor and page.prevCursor: c ends with null, a starts with undefined
nextCursor(page) ==
    CASE page = "a" -> "b" [] page = "b" -> "c" [] page = "c" -> Null
      [] OTHER -> Undefined
prevCursor(page) ==
    CASE page = "c" -> "b" [] page = "b" -> "a" [] OTHER -> Undefined

\* pages[pages.length - 1] and pages[0]: undefined on an empty list
LastOf(pages) == IF pages = <<>> THEN Undefined ELSE pages[Len(pages)]
FirstOf(pages) == IF pages = <<>> THEN Undefined ELSE pages[1]

getNextPageParam(lastPage, pages) == nextCursor(lastPage)
getPreviousPageParam(firstPage, pages) == prevCursor(firstPage)

\* x == null
IsNullish(x) == x = Null \/ x = Undefined

\* what setQueryData is called with: lists of equal length
QueryDataValues ==
    {[pages |-> <<"b">>, pageParams |-> <<Undefined>>],
     [pages |-> <<>>, pageParams |-> <<>>]}

DefaultInfEntry ==
    [data |-> NoData, loading |-> FALSE, error |-> NoError, fetchedAt |-> 0,
     isFetchingNextPage |-> FALSE, isFetchingPreviousPage |-> FALSE]

\* getEntry(key): the entry returned, the cache and its insertion order after
infGetEntry(key) == IF key \in DOMAIN infCache THEN infCache[key] ELSE DefaultInfEntry
infWithEntry(c, key) == IF key \in DOMAIN c THEN c ELSE Put(c, key, DefaultInfEntry)
infWithKey(order, key) == IF key \in SeqSet(order) THEN order ELSE Append(order, key)

\* a snapshot cache whose comparison leaves the data out
infSetSnapshotIgnoringData(sc, key, entry) ==
    IF /\ key \in DOMAIN sc
       /\ sc[key].entry.loading = entry.loading
       /\ sc[key].entry.error = entry.error
       /\ sc[key].entry.isFetchingNextPage = entry.isFetchingNextPage
       /\ sc[key].entry.isFetchingPreviousPage = entry.isFetchingPreviousPage
    THEN Put(sc, key, [entry |-> entry, snapshot |-> sc[key].snapshot])
    ELSE Put(sc, key, [entry |-> entry, snapshot |-> entry])
\* the snapshot cache after setEntry(key, entry)
infSetSnapshot(sc, key, entry) ==
    IF /\ key \in DOMAIN sc
       /\ sc[key].entry.data = entry.data
       /\ sc[key].entry.loading = entry.loading
       /\ sc[key].entry.error = entry.error
       /\ sc[key].entry.isFetchingNextPage = entry.isFetchingNextPage
       /\ sc[key].entry.isFetchingPreviousPage = entry.isFetchingPreviousPage
    THEN Put(sc, key, [entry |-> entry, snapshot |-> sc[key].snapshot])
    ELSE Put(sc, key, [entry |-> entry, snapshot |-> entry])

\* setEntry(key, entry): cache.set, touchKey, snapshot cache
infSetEntry(key, entry) ==
    /\ infCache' = Put(infCache, key, entry)
    /\ infCacheOrder' = infWithKey(infCacheOrder, key)
    /\ infAccessOrder' = touchKey(infAccessOrder, key)
    /\ infSnapshotCache' = infSetSnapshot(infSnapshotCache, key, entry)

\* getEntry(key) alone: a missing entry is created, nothing is touched
infCreateEntry(key) ==
    /\ infCache' = infWithEntry(infCache, key)
    /\ infCacheOrder' = infWithKey(infCacheOrder, key)
    /\ UNCHANGED <<infAccessOrder, infSnapshotCache>>

\* getSnapshot(key): the snapshot a read returns
infSnapshotOf(key) ==
    IF key \in DOMAIN infSnapshotCache /\ infSnapshotCache[key].entry = infGetEntry(key)
    THEN infSnapshotCache[key].snapshot
    ELSE infGetEntry(key)

\* the hook's hasNextPage and hasPreviousPage, from the data of the snapshot read
hasNextPage(data) ==
    IF data = NoData \/ Len(data.pages) = 0 THEN FALSE
    ELSE ~IsNullish(getNextPageParam(LastOf(data.pages), data.pages))
hasPreviousPage(data) ==
    IF data = NoData \/ Len(data.pages) = 0 THEN FALSE
    ELSE ~IsNullish(getPreviousPageParam(FirstOf(data.pages), data.pages))

\* evict: the test of the scan
infEvictable(key) ==
    /\ infListeners[key] = {}
    /\ key \in DOMAIN infCache
    /\ ~infCache[key].loading
    /\ ~infCache[key].isFetchingNextPage
    /\ ~infCache[key].isFetchingPreviousPage

RECURSIVE infEvictScan(_, _)
infEvictScan(order, toRemove) ==
    IF order = <<>> \/ Cardinality(DOMAIN infCache) - Len(toRemove) <= maxCacheSize
    THEN toRemove
    ELSE infEvictScan(Tail(order),
                      IF infEvictable(Head(order)) THEN Append(toRemove, Head(order))
                                                   ELSE toRemove)

infEvictList ==
    IF Cardinality(DOMAIN infCache) <= maxCacheSize THEN <<>>
    ELSE infEvictScan(infAccessOrder, <<>>)

\* fetchInitial: the entries it sets
infLoadingEntry(entry) == [entry EXCEPT !.loading = TRUE, !.error = NoError]
infFirstPageEntry(firstPage) ==
    [data |-> [pages |-> <<firstPage>>, pageParams |-> <<Undefined>>],
     loading |-> FALSE, error |-> NoError, fetchedAt |-> now,
     isFetchingNextPage |-> FALSE, isFetchingPreviousPage |-> FALSE]
\* fetchInitial: its guards
infFreshSkip(entry, force) ==
    /\ ~force
    /\ entry.data # NoData
    /\ entry.fetchedAt > 0
    /\ now - entry.fetchedAt < staleTime
infDedupSkip(entry, force) == ~force /\ entry.loading
infIsLatest(key, requestId) ==
    key \in DOMAIN infInflightId /\ infInflightId[key] = requestId

\* an append that clears the error as a fetched first page does
appendPageClearingError(current, page, nextParam) ==
    [current EXCEPT !.data = [pages |-> Append(current.data.pages, page),
                              pageParams |-> Append(current.data.pageParams, nextParam)],
                    !.isFetchingNextPage = FALSE,
                    !.fetchedAt = now,
                    !.error = NoError]
\* an append that forgets the cursor of the page
appendPageOnly(current, page, nextParam) ==
    [current EXCEPT !.data = [pages |-> Append(current.data.pages, page),
                              pageParams |-> current.data.pageParams],
                    !.isFetchingNextPage = FALSE,
                    !.fetchedAt = now]
\* fetchNext and fetchPrevious: the entries they set when the page arrived
appendPage(current, page, nextParam) ==
    [current EXCEPT !.data = [pages |-> Append(current.data.pages, page),
                              pageParams |-> Append(current.data.pageParams, nextParam)],
                    !.isFetchingNextPage = FALSE,
                    !.fetchedAt = now]
\* a prepend that keeps the first cursor in front
prependPageBehindFirst(current, page, prevParam) ==
    [current EXCEPT !.data = [pages |-> <<page>> \o current.data.pages,
                              pageParams |-> IF current.data.pageParams = <<>>
                                             THEN <<prevParam>>
                                             ELSE <<Head(current.data.pageParams), prevParam>>
                                                  \o Tail(current.data.pageParams)],
                    !.isFetchingPreviousPage = FALSE,
                    !.fetchedAt = now]
prependPage(current, page, prevParam) ==
    [current EXCEPT !.data = [pages |-> <<page>> \o current.data.pages,
                              pageParams |-> <<prevParam>> \o current.data.pageParams],
                    !.isFetchingPreviousPage = FALSE,
                    !.fetchedAt = now]

\* a rejection that resets the entry as a failed first fetch would
nextRejectedEntryReset(current, e) ==
    [DefaultInfEntry EXCEPT !.error = ToError(e)]
\* fetchNext and fetchPrevious: the entries they set when config.fn rejected
nextRejectedEntry(current, e) ==
    [current EXCEPT !.isFetchingNextPage = FALSE, !.error = ToError(e)]
prevRejectedEntry(current, e) ==
    [current EXCEPT !.isFetchingPreviousPage = FALSE, !.error = ToError(e)]

\* the query cache but its clock and its history
qidle == <<cache, listeners, snapshotCache, inflightId, accessOrder, nextRequestId,
           pending, promise, evictQueue, lastIssued, succeededAt, appliedAt, watch>>

\* a call of config.fn: its kind, key, request id (fetchInitial only) and cursor;
\* n numbers the calls, era tells how the call stands to the refetches of its key
Request(kind, key, id, param, force) ==
    [kind |-> kind, key |-> key, id |-> id, param |-> param, force |-> force,
     n |-> infIssued + 1, era |-> "current"]

\* a refetch is issued for key: the page calls in flight were issued before it
BeforeRefetch(reqs, key) ==
    {IF r.key = key /\ r.kind # "initial" /\ r.era = "current"
     THEN [r EXCEPT !.era = "before"] ELSE r : r \in reqs}

\* a refetch of key resolved: the page calls issued before it are now stale
AfterRefetch(reqs, key) ==
    {IF r.key = key /\ r.kind # "initial" /\ r.era = "before"
     THEN [r EXCEPT !.era = "stale"] ELSE r : r \in reqs}

(***************************************************************************)
(* The operations of the infinite cache.                                   *)
(***************************************************************************)
InfSubscribe(key, listener) ==
    /\ listener \notin infListeners[key]
    /\ infListeners' = [infListeners EXCEPT ![key] = @ \cup {listener}]
    /\ last' = NoStep
    /\ UNCHANGED <<infCache, infCacheOrder, infSnapshotCache, infInflightId, infAccessOrder,
                   infNextRequestId, infPending, infEvictQueue, infIssued, qidle, now, cvars, mvars, ovars>>

InfUnsubscribe(key, listener) ==
    /\ listener \in infListeners[key]
    /\ infEvictQueue < MaxEvictQueue
    /\ infListeners' = [infListeners EXCEPT ![key] = @ \ {listener}]
    /\ infEvictQueue' = infEvictQueue + 1
    /\ last' = NoStep
    /\ UNCHANGED <<infCache, infCacheOrder, infSnapshotCache, infInflightId, infAccessOrder,
                   infNextRequestId, infPending, infIssued, qidle, now, cvars, mvars, ovars>>

\* getSnapshot(key): a render reads the entry
InfGetSnapshot(key) ==
    /\ infCache' = infWithEntry(infCache, key)
    /\ infCacheOrder' = infWithKey(infCacheOrder, key)
    /\ infSnapshotCache' =
          IF key \in DOMAIN infSnapshotCache /\ infSnapshotCache[key].entry = infGetEntry(key)
          THEN infSnapshotCache
          ELSE Put(infSnapshotCache, key,
                   [entry |-> infGetEntry(key), snapshot |-> infGetEntry(key)])
    /\ last' = NoStep
    /\ UNCHANGED <<infListeners, infInflightId, infAccessOrder, infNextRequestId,
                   infPending, infEvictQueue, infIssued, qidle, now, cvars, mvars, ovars>>

\* fetchInitial(key, args, force) up to its await: the mount effect and
\* prefetch (force = FALSE), refetch and the refetch interval (force = TRUE)
FetchInitial(key, force) ==
    LET entry == infGetEntry(key)
        requestId == infNextRequestId + 1
    IN  IF infFreshSkip(entry, force) \/ infDedupSkip(entry, force)
        THEN /\ last' = Step("inf-skip", key, 0, {})
             /\ UNCHANGED <<ivars, qidle, now, cvars, mvars, ovars>>
        ELSE /\ infIssued < MaxInfRequests
             /\ infNextRequestId' = requestId
             /\ infInflightId' = Put(infInflightId, key, requestId)
             /\ infSetEntry(key, infLoadingEntry(entry))
             /\ infPending' =
                   (IF force THEN BeforeRefetch(infPending, key) ELSE infPending)
                   \cup {Request("initial", key, requestId, Undefined, force)}
             /\ infIssued' = infIssued + 1
             /\ last' = IF ~force /\ last.op = "inf-invalidate" /\ last.key \in {key, ""}
                        THEN Step("inf-initial-invalidated", key, infIssued + 1, {})
                        ELSE Step("inf-initial", key, infIssued + 1, {})
             /\ UNCHANGED <<infListeners, infEvictQueue, qidle, now, cvars, mvars, ovars>>

\* config.fn resolved for a fetchInitial
InitialResolve(r) ==
    /\ r \in infPending /\ r.kind = "initial"
    /\ IF infIsLatest(r.key, r.id)
       THEN /\ infSetEntry(r.key, infFirstPageEntry(PageFor(r.param)))
            /\ infPending' = IF r.force THEN AfterRefetch(infPending \ {r}, r.key)
                                        ELSE infPending \ {r}
            /\ last' = Step("inf-first-page", r.key, r.n, {})
       ELSE /\ infPending' = infPending \ {r}
            /\ last' = Step("inf-discarded", r.key, r.n, {})
            /\ UNCHANGED <<infCache, infCacheOrder, infAccessOrder, infSnapshotCache>>
    /\ UNCHANGED <<infListeners, infInflightId, infNextRequestId, infEvictQueue, infIssued,
                   qidle, now, cvars, mvars, ovars>>

\* config.fn rejected for a fetchInitial
InitialReject(r, e) ==
    /\ r \in infPending /\ r.kind = "initial"
    /\ infPending' = infPending \ {r}
    /\ IF infIsLatest(r.key, r.id)
       THEN /\ infSetEntry(r.key, [infGetEntry(r.key) EXCEPT
                                      !.loading = FALSE, !.error = ToError(e)])
            /\ last' = Step("inf-initial-rejected", r.key, r.n, {})
       ELSE /\ last' = Step("inf-discarded", r.key, r.n, {})
            /\ UNCHANGED <<infCache, infCacheOrder, infAccessOrder, infSnapshotCache>>
    /\ UNCHANGED <<infListeners, infInflightId, infNextRequestId, infEvictQueue, infIssued,
                   qidle, now, cvars, mvars, ovars>>

\* fetchNext(key, args) up to its await
FetchNext(key) ==
    LET entry == infGetEntry(key)
        nextParam == getNextPageParam(LastOf(entry.data.pages), entry.data.pages)
    IN  IF entry.data = NoData \/ entry.isFetchingNextPage
        THEN /\ infCreateEntry(key)
             /\ last' = Step("inf-next-skip", key, 0, {})
             /\ UNCHANGED <<infListeners, infInflightId, infNextRequestId, infPending,
                            infEvictQueue, infIssued, qidle, now, cvars, mvars, ovars>>
        ELSE IF IsNullish(nextParam)
        THEN /\ last' = Step("inf-next-end", key, 0, {})
             /\ UNCHANGED <<ivars, qidle, now, cvars, mvars, ovars>>
        ELSE /\ infIssued < MaxInfRequests
             /\ infSetEntry(key, [entry EXCEPT !.isFetchingNextPage = TRUE])
             /\ infPending' = infPending \cup {Request("next", key, 0, nextParam, FALSE)}
             /\ infIssued' = infIssued + 1
             /\ last' = Step("inf-next", key, infIssued + 1, {})
             /\ UNCHANGED <<infListeners, infInflightId, infNextRequestId, infEvictQueue,
                            qidle, now, cvars, mvars, ovars>>

\* config.fn resolved for a fetchNext
NextResolve(r) ==
    /\ r \in infPending /\ r.kind = "next"
    /\ infPending' = infPending \ {r}
    /\ IF infGetEntry(r.key).data # NoData
       THEN /\ infSetEntry(r.key, appendPage(infGetEntry(r.key), PageFor(r.param), r.param))
            /\ last' = Step("inf-next-page", r.key, r.n, {})
       ELSE /\ infCreateEntry(r.key)
            /\ last' = Step("inf-next-dropped", r.key, r.n, {})
    /\ UNCHANGED <<infListeners, infInflightId, infNextRequestId, infEvictQueue, infIssued,
                   qidle, now, cvars, mvars, ovars>>

\* config.fn rejected for a fetchNext
NextReject(r, e) ==
    /\ r \in infPending /\ r.kind = "next"
    /\ infPending' = infPending \ {r}
    /\ infSetEntry(r.key, nextRejectedEntry(infGetEntry(r.key), e))
    /\ last' = Step("inf-next-rejected", r.key, r.n, {})
    /\ UNCHANGED <<infListeners, infInflightId, infNextRequestId, infEvictQueue, infIssued,
                   qidle, now, cvars, mvars, ovars>>

\* fetchPrevious(key, args) up to its await
FetchPrevious(key) ==
    LET entry == infGetEntry(key)
        prevParam == getPreviousPageParam(FirstOf(entry.data.pages), entry.data.pages)
    IN  IF entry.data = NoData \/ entry.isFetchingPreviousPage
        THEN /\ infCreateEntry(key)
             /\ last' = Step("inf-prev-skip", key, 0, {})
             /\ UNCHANGED <<infListeners, infInflightId, infNextRequestId, infPending,
                            infEvictQueue, infIssued, qidle, now, cvars, mvars, ovars>>
        ELSE IF IsNullish(prevParam)
        THEN /\ last' = Step("inf-prev-end", key, 0, {})
             /\ UNCHANGED <<ivars, qidle, now, cvars, mvars, ovars>>
        ELSE /\ infIssued < MaxInfRequests
             /\ infSetEntry(key, [entry EXCEPT !.isFetchingPreviousPage = TRUE])
             /\ infPending' = infPending \cup {Request("prev", key, 0, prevParam, FALSE)}
             /\ infIssued' = infIssued + 1
             /\ last' = Step("inf-prev", key, infIssued + 1, {})
             /\ UNCHANGED <<infListeners, infInflightId, infNextRequestId, infEvictQueue,
                            qidle, now, cvars, mvars, ovars>>

\* config.fn resolved for a fetchPrevious
PrevResolve(r) ==
    /\ r \in infPending /\ r.kind = "prev"
    /\ infPending' = infPending \ {r}
    /\ IF infGetEntry(r.key).data # NoData
       THEN /\ infSetEntry(r.key, prependPage(infGetEntry(r.key), PageFor(r.param), r.param))
            /\ last' = Step("inf-prev-page", r.key, r.n, {})
       ELSE /\ infCreateEntry(r.key)
            /\ last' = Step("inf-prev-dropped", r.key, r.n, {})
    /\ UNCHANGED <<infListeners, infInflightId, infNextRequestId, infEvictQueue, infIssued,
                   qidle, now, cvars, mvars, ovars>>

\* config.fn rejected for a fetchPrevious
PrevReject(r, e) ==
    /\ r \in infPending /\ r.kind = "prev"
    /\ infPending' = infPending \ {r}
    /\ infSetEntry(r.key, prevRejectedEntry(infGetEntry(r.key), e))
    /\ last' = Step("inf-prev-rejected", r.key, r.n, {})
    /\ UNCHANGED <<infListeners, infInflightId, infNextRequestId, infEvictQueue, infIssued,
                   qidle, now, cvars, mvars, ovars>>

\* an invalidation that drops the data with the time of the fetch
invalidatedEntryCleared(entry) == [entry EXCEPT !.fetchedAt = 0, !.data = NoData]
\* the entry invalidate and invalidateAll set
invalidatedEntry(entry) == [entry EXCEPT !.fetchedAt = 0]

\* hook.invalidate(...args)
Invalidate(key) ==
    /\ IF key \in DOMAIN infCache
       THEN infSetEntry(key, invalidatedEntry(infCache[key]))
       ELSE UNCHANGED <<infCache, infCacheOrder, infAccessOrder, infSnapshotCache>>
    /\ last' = Step("inf-invalidate", IF key \in DOMAIN infCache THEN key ELSE "none", 0, {})
    /\ UNCHANGED <<infListeners, infInflightId, infNextRequestId, infPending,
                   infEvictQueue, infIssued, qidle, now, cvars, mvars, ovars>>

\* the loop of invalidateAll over the entries, in insertion order
RECURSIVE invalidateEach(_, _)
invalidateEach(keys, acc) ==
    IF keys = <<>> THEN acc
    ELSE LET key == Head(keys)
             entry == invalidatedEntry(acc.cache[key])
         IN  invalidateEach(Tail(keys),
                 [cache |-> Put(acc.cache, key, entry),
                  order |-> touchKey(acc.order, key),
                  snaps |-> infSetSnapshot(acc.snaps, key, entry)])

\* hook.invalidateAll()
InvalidateAll ==
    LET all == invalidateEach(infCacheOrder,
                   [cache |-> infCache, order |-> infAccessOrder, snaps |-> infSnapshotCache])
    IN  /\ infCache' = all.cache
        /\ infAccessOrder' = all.order
        /\ infSnapshotCache' = all.snaps
        /\ last' = Step("inf-invalidate", "", 0, {})
        /\ UNCHANGED <<infCacheOrder, infListeners, infInflightId, infNextRequestId,
                       infPending, infEvictQueue, infIssued, qidle, now, cvars, mvars, ovars>>

\* the updater functions a caller passes to setQueryData: one that keeps the
\* first page only
QueryDataUpdaters == {[fn |-> "firstPageOnly"]}
firstPageOnly(prev) ==
    IF prev = NoData \/ prev.pages = <<>> THEN [pages |-> <<>>, pageParams |-> <<>>]
    ELSE [pages |-> <<Head(prev.pages)>>, pageParams |-> <<Head(prev.pageParams)>>]

\* setQueryData: typeof updater === 'function' ? updater(entry.data) : updater
newDataOf(updater, prev) ==
    IF updater \in QueryDataUpdaters THEN firstPageOnly(prev) ELSE updater

\* a write that also ends the loading of the entry
writtenInfEntrySettled(entry, newData) ==
    [entry EXCEPT !.data = newData, !.fetchedAt = now, !.loading = FALSE]
\* a write that leaves the time of the last fetch alone
writtenInfEntryUnstamped(entry, newData) == [entry EXCEPT !.data = newData]
\* setQueryData: { ...entry, data: newData, fetchedAt: Date.now() }
writtenInfEntry(entry, newData) == [entry EXCEPT !.data = newData, !.fetchedAt = now]

\* hook.setQueryData(args, updater), updater a value or a function of the data
SetQueryData(key, updater) ==
    /\ infSetEntry(key, writtenInfEntry(infGetEntry(key),
                                        newDataOf(updater, infGetEntry(key).data)))
    /\ last' = Step("inf-set", key, 0, {})
    /\ UNCHANGED <<infListeners, infInflightId, infNextRequestId, infPending,
                   infEvictQueue, infIssued, qidle, now, cvars, mvars, ovars>>

\* hook.getQueryData(args): cache.get(key)?.data
getQueryData(key) == IF key \in DOMAIN infCache THEN infCache[key].data ELSE NoData

\* a caller reads with hook.getQueryData(args)
GetQueryData(key) ==
    /\ last' = IF "inf-get" \in watch
               THEN [op |-> "inf-get", key |-> key, id |-> 0, removed |-> {},
                     returned |-> getQueryData(key)]
               ELSE NoStep
    /\ UNCHANGED <<ivars, qidle, now, cvars, mvars, ovars>>

\* the queued microtask runs evict()
InfEvictPass ==
    /\ infEvictQueue > 0
    /\ LET removed == SeqSet(infEvictList)
       IN  /\ infCache' = Drop(infCache, removed)
           /\ infCacheOrder' = SelectSeq(infCacheOrder, LAMBDA x : x \notin removed)
           /\ infSnapshotCache' = Drop(infSnapshotCache, removed)
           /\ infInflightId' = Drop(infInflightId, removed)
           /\ infAccessOrder' = SelectSeq(infAccessOrder, LAMBDA x : x \notin removed)
           /\ last' = Step("inf-evict", "", 0, removed)
    /\ infEvictQueue' = infEvictQueue - 1
    /\ UNCHANGED <<infListeners, infNextRequestId, infPending, infIssued, qidle, now, cvars, mvars, ovars>>

\* createInfiniteQueryHook(config): the state after construction
InitInfinite ==
    /\ infCache = EmptyMap
    /\ infCacheOrder = <<>>
    /\ infListeners = [k \in Keys |-> {}]
    /\ infSnapshotCache = EmptyMap
    /\ infInflightId = EmptyMap
    /\ infAccessOrder = <<>>
    /\ infNextRequestId = 0
    /\ infPending = {}
    /\ infEvictQueue = 0
    /\ infIssued = 0

\* the reads and the first-page fetches of a component for one of `keys`
InitialOps(keys) ==
    \/ \E key \in keys : InfGetSnapshot(key)
    \/ \E key \in keys, force \in BOOLEAN : FetchInitial(key, force)
    \/ \E r \in infPending : InitialResolve(r)
    \/ \E r \in infPending, e \in Rejections : InitialReject(r, e)

\* the calls a component makes on the hook for one of `keys`, and the
\* settlements of config.fn
FetchOps(keys) ==
    \/ InitialOps(keys)
    \/ \E key \in keys : FetchNext(key)
    \/ \E r \in infPending : NextResolve(r)
    \/ \E r \in infPending, e \in Rejections : NextReject(r, e)
    \/ \E key \in keys : FetchPrevious(key)
    \/ \E r \in infPending : PrevResolve(r)
    \/ \E r \in infPending, e \in Rejections : PrevReject(r, e)

\* one key, with the imperative methods and the clock
OneKey == {"k1"}
NextPages ==
    \/ FetchOps(OneKey)
    \/ \E key \in OneKey : Invalidate(key)
    \/ InvalidateAll
    \/ \E key \in OneKey, newData \in QueryDataValues : SetQueryData(key, newData)
    \/ Tick

\* one key fetched and one only read, with invalidation and the clock
NextInvalidate ==
    \/ InitialOps(OneKey)
    \/ \E key \in Keys : InfGetSnapshot(key)
    \/ \E key \in OneKey : FetchNext(key)
    \/ \E r \in infPending : NextResolve(r)
    \/ \E key \in Keys : Invalidate(key)
    \/ InvalidateAll
    \/ Tick

\* one key fetched and written with setQueryData, two keys read, the clock
NextSetData ==
    \/ InitialOps(OneKey)
    \/ \E key \in OneKey, updater \in QueryDataValues \cup QueryDataUpdaters :
          SetQueryData(key, updater)
    \/ \E key \in Keys : GetQueryData(key)
    \/ Tick

\* one key fetched, written with setQueryData and invalidated, the clock
NextWrite ==
    \/ InitialOps(OneKey)
    \/ \E key \in OneKey, updater \in QueryDataValues \cup QueryDataUpdaters :
          SetQueryData(key, updater)
    \/ \E key \in OneKey : Invalidate(key)
    \/ Tick

\* two keys over a ceiling of one entry, with listeners and eviction
NextPagesEvict ==
    \/ FetchOps(Keys)
    \/ \E key \in Keys, listener \in Listeners : InfSubscribe(key, listener)
    \/ \E key \in Keys, listener \in Listeners : InfUnsubscribe(key, listener)
    \/ InfEvictPass

(***************************************************************************)
(* optimisticUpdate and setQueryData of the query hook, as section 4.2 of  *)
(* the specification describes them (their code is not among the sources).*)
(***************************************************************************)
MaxMutations == 1

\* the updaters a caller passes: one that adds an item, one that returns prev
Updaters == {"add", "same"}
\* updater(prev)
applyUpdater(updater, prev) ==
    IF updater = "same" THEN prev
    ELSE IF prev = Undefined THEN "+" ELSE prev \o "+"

\* what mutationFn resolves with
MutationResults == {"ok"}

\* a call of the updater, of mutationFn or of a callback, with its arguments
Call(fn, args) == [fn |-> fn, args |-> args]

\* a synchronous write of data: fetchedAt bumped to now
writtenEntry(entry, data) == [entry EXCEPT !.data = data, !.fetchedAt = now]

\* a failure that leaves the optimistic data in the entry
rolledBackEntryKept(entry, snapshot) == entry
\* on failure: the entry rolled back to the snapshotted data
rolledBackEntry(entry, snapshot) == writtenEntry(entry, snapshot)

\* the calls up to the await of mutationFn
startedCalls(prev) == <<Call("updater", <<prev>>), Call("mutationFn", <<>>)>>
\* the calls after mutationFn resolved
succeededCalls(result) == <<Call("onSuccess", <<result>>), Call("onSettled", <<>>)>>
\* a failure path that settles before it reports the error
failedCallsSettledFirst(e, snapshot) ==
    <<Call("rollback", <<snapshot>>), Call("onSettled", <<>>), Call("onError", <<e, snapshot>>)>>
\* the calls after mutationFn rejected
failedCalls(e, snapshot) ==
    <<Call("rollback", <<snapshot>>), Call("onError", <<e, snapshot>>), Call("onSettled", <<>>)>>

\* hook.setQueryData(args, value)
QuerySetData(key, data) ==
    /\ setEntry(key, writtenEntry(getEntry(cache, key), data))
    /\ last' = Step("set", key, 0, {})
    /\ UNCHANGED <<listeners, inflightId, nextRequestId, pending, evictQueue, now,
                   lastIssued, watch, cvars, mvars, ivars, succeededAt, appliedAt, promise, ovars>>

\* hook.invalidate(...args) of the query hook: fetchedAt reset, data kept
QueryInvalidate(key) ==
    /\ key \in DOMAIN cache
    /\ cache[key].fetchedAt # 0
    /\ setEntry(key, [cache[key] EXCEPT !.fetchedAt = 0])
    /\ last' = Step("invalidate", key, 0, {})
    /\ UNCHANGED <<listeners, inflightId, nextRequestId, pending, evictQueue, now,
                   lastIssued, watch, cvars, mvars, ivars, succeededAt, appliedAt, promise, ovars>>

\* the calls of optimisticUpdate on key whose mutationFn has not settled
Unsettled(key) ==
    {i \in 1..Len(optimistic) : optimistic[i].key = key /\ optimistic[i].promise = "pending"}

\* hook.optimisticUpdate(config) up to its await of mutationFn, the number of
\* calls in a run capped by limit
OptimisticUpdateUpTo(key, updater, limit) ==
    LET entry == getEntry(cache, key)
        newData == applyUpdater(updater, entry.data)
    IN  /\ Len(optimistic) < limit
        /\ setEntry(key, writtenEntry(entry, newData))
        /\ optimistic' = Append(optimistic,
              [key |-> key, snapshot |-> entry.data, optimisticData |-> newData,
               calls |-> startedCalls(entry.data), promise |-> "pending",
               value |-> Undefined, overwrote |-> FALSE, during |-> Unsettled(key)])
        /\ last' = Step("opt-update", key, Len(optimistic) + 1, {})
        /\ UNCHANGED <<listeners, inflightId, nextRequestId, pending, evictQueue, now,
                       lastIssued, watch, cvars, mvars, ivars, succeededAt, appliedAt, promise>>

OptimisticUpdate(key, updater) == OptimisticUpdateUpTo(key, updater, MaxMutations)

\* mutationFn resolved: onSuccess, onSettled, the promise resolves
MutationResolve(i, result) ==
    /\ i \in 1..Len(optimistic)
    /\ optimistic[i].promise = "pending"
    /\ optimistic' = [optimistic EXCEPT ![i].calls = @ \o succeededCalls(result),
                                        ![i].promise = "fulfilled",
                                        ![i].value = result]
    /\ last' = Step("opt-kept", optimistic[i].key, i, {})
    /\ UNCHANGED <<cache, accessOrder, snapshotCache, listeners, inflightId, nextRequestId,
                   pending, evictQueue, now, lastIssued, watch, cvars, mvars, ivars, succeededAt,
                   appliedAt, promise>>

\* mutationFn rejected: rollback, onError, onSettled, the promise rejects
MutationReject(i, e) ==
    /\ i \in 1..Len(optimistic)
    /\ optimistic[i].promise = "pending"
    /\ LET u == optimistic[i]
           entry == getEntry(cache, u.key)
       IN  /\ setEntry(u.key, rolledBackEntry(entry, u.snapshot))
           /\ optimistic' = [optimistic EXCEPT ![i].calls = @ \o failedCalls(e, u.snapshot),
                                               ![i].promise = "rejected",
                                               ![i].value = e,
                                               ![i].overwrote = (entry.data # u.optimisticData)]
           /\ last' = Step("opt-rollback", u.key, i, {})
    /\ UNCHANGED <<listeners, inflightId, nextRequestId, pending, evictQueue, now,
                   lastIssued, watch, cvars, mvars, ivars, succeededAt, appliedAt, promise>>

\* createQueryHook(config): no optimisticUpdate was called yet
InitOptimistic == optimistic = <<>>

\* one key: fetches, synchronous writes and optimistic updates
NextOptimistic ==
    \/ \E key \in OneKey, force \in BOOLEAN : FetchData(key, force)
    \/ \E r \in pending, data \in ResolveValues : Resolve(r, data)
    \/ \E r \in pending, e \in Rejections : Reject(r, e)
    \/ \E key \in OneKey, data \in Payloads : QuerySetData(key, data)
    \/ \E key \in OneKey, updater \in Updaters : OptimisticUpdate(key, updater)
    \/ \E i \in 1..Len(optimistic), result \in MutationResults : MutationResolve(i, result)
    \/ \E i \in 1..Len(optimistic), e \in Rejections : MutationReject(i, e)

\* overlapping optimistic updates: the data is written before the first
\* update of a run, then only optimisticUpdate and its settlements run
MaxOverlap == 2
NextOverlap ==
    \/ \E key \in Keys, data \in Payloads : optimistic = <<>> /\ QuerySetData(key, data)
    \/ \E key \in Keys, updater \in Updaters : OptimisticUpdateUpTo(key, updater, MaxOverlap)
    \/ \E i \in 1..Len(optimistic), result \in MutationResults : MutationResolve(i, result)
    \/ \E i \in 1..Len(optimistic), e \in ErrorObjects : MutationReject(i, e)

(***************************************************************************)
(* The mutation hook: createMutationHook({fn, onSuccess, onError,          *)
(* onSettled}) and one consuming instance of it.                           *)
(***************************************************************************)
\* invocations of mutate / mutateAsync on the instance
MaxMutateCalls == 2

\* what fn resolves with
MutationData == {"d1", "d2"}

\* a promise: pending, fulfilled with a value or rejected with an error;
\* "none" is what mutate hands back (it returns nothing)
Promise(status, value) == [status |-> status, value |-> value]

\* the initial empty state of an instance
emptyMutationState == [data |-> Undefined, loading |-> FALSE, error |-> "null"]

\* mutateAsync: set loading
loadingState(prev) == [prev EXCEPT !.loading = TRUE]
\* on success: {data, loading: false, error: null}
succeededState(prev, data) == [data |-> data, loading |-> FALSE, error |-> "null"]
\* a failure that drops the data of the previous state
failedStateCleared(prev, e) == [data |-> Undefined, loading |-> FALSE, error |-> e]
\* on failure: {...prev, loading: false, error}
failedState(prev, e) == [prev EXCEPT !.loading = FALSE, !.error = e]

\* on success: onSuccess(data) then onSettled(data, null)
mutationSucceededCalls(data) ==
    <<Call("onSuccess", <<data>>), Call("onSettled", <<data, "null">>)>>
\* on failure: onError(error) then onSettled(undefined, error)
mutationFailedCalls(e) ==
    <<Call("onError", <<e>>), Call("onSettled", <<Undefined, e>>)>>

\* what the caller of mutate sees of a settled mutateAsync: nothing
swallowed(settled) == Promise("none", Undefined)

\* mutateAsync(...args) up to its await of fn, called directly or by mutate
StartMutation(via) ==
    /\ Len(mutation.runs) < MaxMutateCalls
    /\ mutation' = [mutation EXCEPT
          !.state = loadingState(@),
          !.calls = Append(@, Call("fn", <<>>)),
          !.runs = Append(@, [via |-> via, fn |-> Promise("pending", Undefined),
                              returned |-> IF via = "mutate" THEN Promise("none", Undefined)
                                           ELSE Promise("pending", Undefined)])]
    /\ UNCHANGED <<qvars, cvars, ivars, ovars>>

\* instance.mutateAsync(...args)
MutateAsync == StartMutation("mutateAsync")

\* instance.mutate(...args): mutateAsync(...args).catch(() => {})
Mutate == StartMutation("mutate")

\* fn resolved with data
MutationFnResolve(i, data) ==
    /\ i \in 1..Len(mutation.runs)
    /\ mutation.runs[i].fn.status = "pending"
    /\ mutation' = [mutation EXCEPT
          !.state = succeededState(@, data),
          !.calls = @ \o mutationSucceededCalls(data),
          !.runs[i].fn = Promise("fulfilled", data),
          !.runs[i].returned = IF mutation.runs[i].via = "mutate"
                               THEN swallowed(Promise("fulfilled", data))
                               ELSE Promise("fulfilled", data)]
    /\ UNCHANGED <<qvars, cvars, ivars, ovars>>

\* fn rejected with e
MutationFnReject(i, e) ==
    /\ i \in 1..Len(mutation.runs)
    /\ mutation.runs[i].fn.status = "pending"
    /\ mutation' = [mutation EXCEPT
          !.state = failedState(@, e),
          !.calls = @ \o mutationFailedCalls(e),
          !.runs[i].fn = Promise("rejected", e),
          !.runs[i].returned = IF mutation.runs[i].via = "mutate"
                               THEN swallowed(Promise("rejected", e))
                               ELSE Promise("rejected", e)]
    /\ UNCHANGED <<qvars, cvars, ivars, ovars>>

\* instance.reset()
ResetMutation ==
    /\ mutation.state # emptyMutationState
    /\ mutation' = [mutation EXCEPT !.state = emptyMutationState]
    /\ UNCHANGED <<qvars, cvars, ivars, ovars>>

\* a mounted instance on which nothing was called yet
InitMutation == mutation = [state |-> emptyMutationState, calls |-> <<>>, runs |-> <<>>]

NextMutation ==
    \/ MutateAsync
    \/ Mutate
    \/ \E i \in 1..Len(mutation.runs), data \in MutationData : MutationFnResolve(i, data)
    \/ \E i \in 1..Len(mutation.runs), e \in Rejections : MutationFnReject(i, e)
    \/ ResetMutation

(***************************************************************************)
(* Specifications.                                                         *)
(***************************************************************************)
InitCache ==
    /\ cache = EmptyMap
    /\ listeners = [k \in Keys |-> {}]
    /\ snapshotCache = EmptyMap
    /\ inflightId = EmptyMap
    /\ accessOrder = <<>>
    /\ nextRequestId = 0
    /\ pending = {}
    /\ promise = EmptyMap
    /\ evictQueue = 0
    /\ now = 1
    /\ lastIssued = [k \in Keys |-> 0]
    /\ succeededAt = [k \in Keys |-> 0]
    /\ appliedAt = [k \in Keys |-> 0]
    /\ last = NoStep

NextQuery ==
    \/ \E key \in Keys, listener \in Listeners : Subscribe(key, listener)
    \/ \E key \in Keys, listener \in Listeners : Unsubscribe(key, listener)
    \/ \E key \in Keys : GetSnapshot(key)
    \/ \E key \in Keys, force \in BOOLEAN : FetchData(key, force)
    \/ \E r \in pending, data \in ResolveValues : Resolve(r, data)
    \/ \E r \in pending, e \in Rejections : Reject(r, e)
    \/ EvictPass
    \/ Tick

\* The same program under four recordings of its history.
WatchSettle == {"resolved", "rejected", "discarded"}
WatchEnsure == {"dedup", "fetch", "refetch"}
WatchStale == {"fresh"}
WatchEvict == {"lost", "regained", "evict", "evict-regained"}

InitSettle == InitCache /\ StoreIdle /\ InitInfinite /\ InitOptimistic /\ InitMutation /\ watch = WatchSettle
InitEnsure == InitCache /\ StoreIdle /\ InitInfinite /\ InitOptimistic /\ InitMutation /\ watch = WatchEnsure
InitStale == InitCache /\ StoreIdle /\ InitInfinite /\ InitOptimistic /\ InitMutation /\ watch = WatchStale
InitEvict == InitCache /\ StoreIdle /\ InitInfinite /\ InitOptimistic /\ InitMutation /\ watch = WatchEvict

SpecSettle == InitSettle /\ [][NextQuery]_vars

\* the query cache with the synchronous writes of the hook, the clock at rest
WrittenData == {"d1"}
NextLoading ==
    \/ \E key \in Keys, listener \in Listeners : Subscribe(key, listener)
    \/ \E key \in Keys, listener \in Listeners : Unsubscribe(key, listener)
    \/ \E key \in Keys : GetSnapshot(key)
    \/ \E key \in Keys, force \in BOOLEAN : FetchData(key, force)
    \/ \E r \in pending, data \in ResolveValues : Resolve(r, data)
    \/ \E r \in pending, e \in ErrorObjects : Reject(r, e)
    \/ EvictPass
    \/ \E key \in Keys, data \in WrittenData : QuerySetData(key, data)
    \/ \E key \in Keys : QueryInvalidate(key)
WatchLoading == {}
InitLoading == InitCache /\ StoreIdle /\ InitInfinite /\ InitOptimistic /\ InitMutation /\ watch = WatchLoading
SpecLoading == InitLoading /\ [][NextLoading]_vars

\* every call of config.fn settles: while a call is pending, one settles
Settles ==
    \/ \E r \in pending, data \in ResolveValues : Resolve(r, data)
    \/ \E r \in pending, e \in ErrorObjects : Reject(r, e)
InitLoadingFair == InitCache /\ StoreIdle /\ InitInfinite /\ InitOptimistic /\ InitMutation /\ watch = WatchLoading
SpecLoadingFair == InitLoadingFair /\ [][NextLoading]_vars /\ WF_vars(Settles)
\* the same steps, with the discarded settlements in the log
WatchDiscard == {"discarded"}
InitDiscard == InitCache /\ StoreIdle /\ InitInfinite /\ InitOptimistic /\ InitMutation /\ watch = WatchDiscard
SpecDiscard == InitDiscard /\ [][NextLoading]_vars
SpecEnsure == InitEnsure /\ [][NextQuery]_vars
SpecStale == InitStale /\ [][NextQuery]_vars
SpecEvict == InitEvict /\ [][NextQuery]_vars

InitStore ==
    /\ \E state \in [Fields -> FieldValues] : InitStoreWith(state)
    /\ InitCache
    /\ InitInfinite
    /\ InitOptimistic
    /\ InitMutation
    /\ watch = {}

NextStore ==
    \/ \E m \in Mutators : SetStateDraft(m)
    \/ \E partial \in Partials : SetStateMerge(partial)
    \/ \E m \in Mutators : Action(m)

SpecComputed == InitStore /\ [][NextStore]_vars

\* the store with plain listeners: every way to commit, on one field
CountValues == [{"count"} -> FieldValues]
NextNotify ==
    \/ \E v \in FieldValues : SetStateDraft([op |-> "assign", field |-> "count", value |-> v])
    \/ \E partial \in CountValues : SetStateMerge(partial)
    \/ \E v \in FieldValues : Action([op |-> "assign", field |-> "count", value |-> v])
    \/ \E partial \in CountValues : Effect(partial)
    \/ \E l \in PlainListeners : SubscribeListener(l)
    \/ \E l \in PlainListeners : UnsubscribeListener(l)

\* the store with selector subscriptions: commits on count and on price
SelectedValues == [{"count"} -> FieldValues] \cup [{"price"} -> FieldValues]
NextSelector ==
    \/ \E partial \in SelectedValues : SetStateMerge(partial)
    \/ \E f \in {"count", "price"} : SetStateDraft([op |-> "delete", field |-> f])
    \/ \E v \in FieldValues : Action([op |-> "assign", field |-> "price", value |-> v])
    \/ \E l \in SelectorListeners, fireImmediately \in BOOLEAN :
          SubscribeSelector(l, fireImmediately)
    \/ \E l \in SelectorListeners : UnsubscribeListener(l)

\* the store with persist and one listener: every form of setState, actions,
\* mutators that throw
ReplaceValues == {5}
DispatchMutators ==
    [op : {"assign"}, field : {"count"}, value : FieldValues]
    \cup [op : {"delete"}, field : {"count"}]
    \cup ThrowingMutators
DispatchPersist == [enabled |-> TRUE, version |-> 1, partialize |-> "none",
                    migrate |-> "none", merge |-> "none"]
NextDispatch ==
    \/ \E m \in DispatchMutators : SetStateDraft(m)
    \/ \E partial \in SelectedValues : SetStateMerge(partial)
    \/ \E n \in ReplaceValues : SetStateReplace(n)
    \/ \E m \in DispatchMutators : Action(m)
    \/ SubscribeListener("b")
    \/ UnsubscribeListener("b")

\* stores created with persist over every modelled option and storage
\* content, then committed to
DefaultState == [price |-> 1, taxRate |-> 2, count |-> 0]
ConfiguredVersion == 1
StoredVersions == {0, 1}
PersistConfigs ==
    [enabled : {TRUE}, version : {ConfiguredVersion}, partialize : {"none", "countOnly"},
     migrate : {"none", "setCount"}, merge : {"none", "currentWins", "persistedOnly"}]
StoredStates == {[count |-> 2], [price |-> 2], [price |-> 2, taxRate |-> 1, count |-> 1]}
Blobs == {NoItem, Unparsable} \cup {Json(st, v) : st \in StoredStates, v \in StoredVersions}
NextPersist ==
    \/ \E partial \in CountValues : SetStateMerge(partial)
    \/ SetStateDraft([op |-> "delete", field |-> "count"])
    \/ \E v \in FieldValues : Action([op |-> "assign", field |-> "price", value |-> v])
    \/ \E partial \in CountValues : Effect(partial)

WatchStore == {"store"}
InitPersist ==
    /\ \E cfg \in PersistConfigs, blob \in Blobs :
          InitStorePersisted(DefaultState, cfg, blob)
    /\ call = [op |-> "create", arg |-> DefaultState, threw |-> FALSE]
    /\ InitCache /\ InitInfinite /\ InitOptimistic /\ InitMutation /\ watch = WatchStore
SpecPersist == InitPersist /\ [][NextPersist]_vars
InitDispatch ==
    /\ InitStorePersisted([f \in Fields |-> 0], DispatchPersist, NoItem)
    /\ call = NoCall
    /\ InitCache /\ InitInfinite /\ InitOptimistic /\ InitMutation /\ watch = WatchStore
SpecDispatch == InitDispatch /\ [][NextDispatch]_vars
InitSelector == InitCache /\ StoreIdle /\ InitInfinite /\ InitOptimistic /\ InitMutation /\ watch = WatchStore
SpecSelector == InitSelector /\ [][NextSelector]_vars
InitNotify == InitCache /\ StoreIdle /\ InitInfinite /\ InitOptimistic /\ InitMutation /\ watch = WatchStore
SpecNotify == InitNotify /\ [][NextNotify]_vars

\* the infinite cache, the query cache and the store idle
WatchPages == {}
InitPages == InitCache /\ StoreIdle /\ InitInfinite /\ InitOptimistic /\ InitMutation /\ watch = WatchPages
SpecPages == InitPages /\ [][NextPages]_vars

WatchInvalidate == {"inf-invalidate", "inf-initial-invalidated"}
InitInvalidate == InitCache /\ StoreIdle /\ InitInfinite /\ InitOptimistic /\ InitMutation /\ watch = WatchInvalidate
SpecInvalidate == InitInvalidate /\ [][NextInvalidate]_vars

WatchSetData == {"inf-set", "inf-get", "inf-skip"}
InitSetData == InitCache /\ StoreIdle /\ InitInfinite /\ InitOptimistic /\ InitMutation /\ watch = WatchSetData
SpecSetData == InitSetData /\ [][NextSetData]_vars

\* one key and its fetches in both directions, the arrived pages in the log
WatchPageFetch == {"inf-next-page", "inf-prev-page"}
InitPageFetch == InitCache /\ StoreIdle /\ InitInfinite /\ InitOptimistic /\ InitMutation /\ watch = WatchPageFetch
NextPageFetch == FetchOps(OneKey)
SpecPageFetch == InitPageFetch /\ [][NextPageFetch]_vars

WatchWrite == {"inf-set", "inf-invalidate"}
InitWrite == InitCache /\ StoreIdle /\ InitInfinite /\ InitOptimistic /\ InitMutation /\ watch = WatchWrite
SpecWrite == InitWrite /\ [][NextWrite]_vars

WatchOptimistic == {"opt-rollback"}
InitOptimisticSpec == InitCache /\ StoreIdle /\ InitInfinite /\ InitOptimistic /\ InitMutation /\ watch = WatchOptimistic
SpecOptimistic == InitOptimisticSpec /\ [][NextOptimistic]_vars
InitOverlap == InitCache /\ StoreIdle /\ InitInfinite /\ InitOptimistic /\ InitMutation /\ watch = WatchOptimistic
SpecOverlap == InitOverlap /\ [][NextOverlap]_vars

\* the two hooks are separate closures that share no state: a run exercises
\* the query cache or the infinite cache, with the eviction passes in the log
WatchLedger == {"evict"}
WatchInfLedger == {"inf-evict"}
NextQueryLedger ==
    \/ \E key \in Keys, listener \in Listeners : Subscribe(key, listener)
    \/ \E key \in Keys, listener \in Listeners : Unsubscribe(key, listener)
    \/ \E key \in Keys : GetSnapshot(key)
    \/ \E key \in Keys, force \in BOOLEAN : FetchData(key, force)
    \/ \E r \in pending, data \in ResolveValues : Resolve(r, data)
    \/ \E r \in pending, e \in ErrorObjects : Reject(r, e)
    \/ EvictPass
NextInfLedger ==
    \/ InitialOps(Keys)
    \/ \E key \in Keys : FetchNext(key)
    \/ \E r \in infPending : NextResolve(r)
    \/ \E key \in Keys, listener \in Listeners : InfSubscribe(key, listener)
    \/ \E key \in Keys, listener \in Listeners : InfUnsubscribe(key, listener)
    \/ InfEvictPass
NextLedger ==
    \/ watch = WatchLedger /\ NextQueryLedger
    \/ watch = WatchInfLedger /\ NextInfLedger
InitLedger ==
    /\ InitCache /\ StoreIdle /\ InitInfinite /\ InitOptimistic /\ InitMutation
    /\ watch \in {WatchLedger, WatchInfLedger}
SpecLedger == InitLedger /\ [][NextLedger]_vars

WatchPagesEvict == {"inf-next-rejected", "inf-prev-rejected"}
InitMutationSpec == InitCache /\ StoreIdle /\ InitInfinite /\ InitOptimistic /\ InitMutation /\ watch = {}
SpecMutation == InitMutationSpec /\ [][NextMutation]_vars

InitPagesEvict == InitCache /\ StoreIdle /\ InitInfinite /\ InitOptimistic /\ InitMutation /\ watch = WatchPagesEvict
SpecPagesEvict == InitPagesEvict /\ [][NextPagesEvict]_vars

(***************************************************************************)
(* The query cache: claims C1 to C7.                                       *)
(***************************************************************************)
\* the requests this step settled
Settled == pending \ pending'
\* the requests this step issued
Issued == pending' \ pending
\* the keys this step removed from the cache
Removed == (DOMAIN cache) \ (DOMAIN cache')
\* this step ran an eviction pass
PassRuns == evictQueue' = evictQueue - 1

\* C1 (SpecSettle): a request that settles while it is not the latest one
\* issued for its key changes nothing of the cache; a request that settles
\* and is recorded as applied is the latest one issued for its key.
C1_LastIssuedWins ==
    [][\A r \in Settled :
          /\ r.id # lastIssued[r.key] =>
                 /\ cache' = cache
                 /\ snapshotCache' = snapshotCache
                 /\ accessOrder' = accessOrder
          /\ cache' # cache => r.id = lastIssued[r.key]]_vars

\* A was issued, then B for the same key; B resolved with data, and then A
\* settled and was discarded: the entry holds B's data
C1_Witness ==
    /\ last.op = "discarded"
    /\ last.id < lastIssued[last.key]
    /\ {r \in pending : r.key = last.key} = {}
    /\ last.key \in DOMAIN cache
    /\ ~cache[last.key].loading
    /\ cache[last.key].data \in Payloads
    /\ cache[last.key].error = NoError

\* C2 (SpecEnsure): a non-forced ensure for a key whose entry is loading
\* invokes no fetch and allocates no request id.
C2_Dedup ==
    [][\A key \in Keys :
          (/\ key \in DOMAIN cache
           /\ cache[key].loading
           /\ FetchData(key, FALSE))
          => /\ pending' = pending
             /\ nextRequestId' = nextRequestId
             /\ inflightId' = inflightId
             /\ cache' = cache]_vars

\* an ensure was deduplicated: one request in flight for the key
C2_Witness ==
    /\ last.op = "dedup"
    /\ cache[last.key].loading
    /\ Cardinality({r \in pending : r.key = last.key}) = 1

\* C3 as stated (SpecStale): after a fetch for a key resolved at time T, a
\* non-forced ensure before T + staleTime invokes no fetch; a forced one does.
C3_Original ==
    [][\A key \in Keys :
          /\ (/\ succeededAt[key] > 0
              /\ now < succeededAt[key] + staleTime
              /\ FetchData(key, FALSE))
             => Issued = {}
          /\ FetchData(key, TRUE) => Issued # {}]_vars

\* C3 as amended (SpecStale): while the cache holds the entry that took
\* defined data from a resolved fetch at time T, a non-forced ensure before
\* T + staleTime invokes no fetch; a forced one invokes it at any time.
C3_FreshNotRefetched ==
    [][\A key \in Keys :
          /\ (/\ appliedAt[key] > 0
              /\ now < appliedAt[key] + staleTime
              /\ FetchData(key, FALSE))
             => (Issued = {} /\ nextRequestId' = nextRequestId)
          /\ FetchData(key, TRUE) =>
                (Issued = {[key |-> key, id |-> nextRequestId + 1]})]_vars

\* an ensure was skipped as fresh, at a time later than the resolution
C3_Witness ==
    /\ last.op = "fresh"
    /\ appliedAt[last.key] > 0
    /\ now > appliedAt[last.key]
    /\ now < appliedAt[last.key] + staleTime

\* C4 (SpecEvict): a step removes a key from the cache only if the key has
\* no listener and its entry is not loading when the step is taken.
C4_NeverEvictsInUse ==
    [][\A key \in Removed :
          /\ PassRuns
          /\ listeners[key] = {}
          /\ ~cache[key].loading]_vars

\* a key lost its last listener and regained one before the pass ran; the
\* pass removed another key and kept this one, the oldest of the ledger
C4_Witness ==
    /\ last.op = "evict-regained"
    /\ last.removed # {}
    /\ last.key \in DOMAIN cache
    /\ listeners[last.key] # {}
    /\ ~cache[last.key].loading
    /\ accessOrder # <<>>
    /\ accessOrder[1] = last.key

\* the entries a pass may remove
EvictableKeys == {k \in DOMAIN cache : listeners[k] = {} /\ ~cache[k].loading}
\* a is touched less recently than b
Before(a, b) ==
    \E i, j \in 1..Len(accessOrder) :
        i < j /\ accessOrder[i] = a /\ accessOrder[j] = b

\* C5 (SpecEvict): a pass that starts above the ceiling removes evictable
\* entries, least recently touched first, until the cache is at or below the
\* ceiling or no evictable entry remains; a pass that starts at or below the
\* ceiling removes nothing.
C5_EvictsUntilCeiling ==
    [][PassRuns =>
          IF Cardinality(DOMAIN cache) <= maxCacheSize
          THEN Removed = {}
          ELSE /\ Removed \subseteq EvictableKeys
               /\ \/ Cardinality(DOMAIN cache') <= maxCacheSize
                  \/ EvictableKeys \subseteq Removed
               /\ Removed # {} => Cardinality(DOMAIN cache') >= maxCacheSize
               /\ \A r \in Removed, k \in (EvictableKeys \ Removed) \cap SeqSet(accessOrder) :
                     Before(r, k)]_vars

\* C6 (SpecEvict): a snapshot read of a key moves the key to the
\* most-recently-touched end of the ledger.
C6_ReadsTouch ==
    [][\A key \in Keys :
          GetSnapshot(key) =>
             (accessOrder' # <<>> /\ accessOrder'[Len(accessOrder')] = key)]_vars

\* C7 (SpecSettle): when the latest request issued for a key rejects, the
\* entry keeps its data and fetchedAt and gets loading = false and the
\* rejection as its error (wrapped in an Error when it is none); no promise
\* fetchData returned is ever rejected; and when a fetch is issued the entry
\* keeps its data and gets loading = true and error = null.
C7_RejectionKept ==
    [][/\ \A r \in pending, e \in Rejections :
             (Reject(r, e) /\ r.id = lastIssued[r.key]) =>
                /\ r.key \in DOMAIN cache /\ r.key \in DOMAIN cache'
                /\ cache'[r.key].loading = FALSE
                /\ cache'[r.key].error = ToError(e)
                /\ cache'[r.key].data = cache[r.key].data
                /\ cache'[r.key].fetchedAt = cache[r.key].fetchedAt
       /\ \A id \in DOMAIN promise' : promise'[id] # "rejected"
       /\ \A r \in Issued :
             /\ cache'[r.key].data = getEntry(cache, r.key).data
             /\ cache'[r.key].fetchedAt = getEntry(cache, r.key).fetchedAt
             /\ cache'[r.key].loading = TRUE
             /\ cache'[r.key].error = NoError]_vars

\* a refetch of resolved data rejected: the entry keeps the data and the
\* time of the fetch, and holds the error
C7_Witness ==
    /\ last.op = "rejected"
    /\ last.id = lastIssued[last.key]
    /\ promise[last.id] = "fulfilled"
    /\ cache[last.key].data \in Payloads
    /\ cache[last.key].fetchedAt > 0
    /\ ~cache[last.key].loading
    /\ cache[last.key].error # NoError

(***************************************************************************)
(* The computed engine: claims C8, C9, C10 (under SpecComputed).           *)
(***************************************************************************)
Index(key) == CHOOSE i \in 1..Len(computedKeys) : computedKeys[i] = key
ComputedNames == SeqSet(computedKeys)
Earlier(key) == {computedKeys[j] : j \in 1..(Index(key) - 1)}

\* the raw fields whose value this commit changed (added and deleted ones too)
ChangedRaw == {f \in Fields : Get(rawState', f) # Get(rawState, f)}
\* the derivations whose value this commit's pass changed
ChangedComputed == {d \in ComputedNames : Get(cachedResults', d) # Get(cachedResults, d)}

\* C8: a derivation with a cached value and a non-empty recorded dependency
\* set that is disjoint from the changed raw fields and the changed earlier
\* derivations of the pass is not invoked in that pass and keeps its value.
C8_SkipsUnaffected ==
    [][\A key \in ComputedNames :
          (/\ key \in DOMAIN cachedResults
           /\ key \in DOMAIN deps
           /\ deps[key] # {}
           /\ deps[key] \cap (ChangedRaw \cup (ChangedComputed \cap Earlier(key))) = {})
          => (key \notin invoked' /\ cachedResults'[key] = cachedResults[key])]_vars

\* a pass that changed a raw field, invoked a derivation and skipped another
C8_Witness ==
    /\ changed = {"price"}
    /\ "tax" \in invoked
    /\ "isPositive" \notin invoked
    /\ "sign" \notin invoked
    /\ deps["sign"] # {}

\* the derivations whose recorded dependencies contain `name`
Readers(name) == {d \in ComputedNames : name \in deps[d]}

\* everything that depends on `names`, directly or through derivations
RECURSIVE Dependents(_)
Dependents(names) ==
    LET more == names \cup {d \in ComputedNames : deps[d] \cap names # {}}
    IN  IF more = names THEN names ELSE Dependents(more)

\* the commit changes exactly the raw field f, which only derivation m reads
ChainCase(f, m) == ChangedRaw = {f} /\ Readers(f) = {m}

\* C9 as stated: the intermediate derivation is re-invoked, every later
\* derivation that read its output is re-invoked, and the derivations that
\* depend on neither are not.
C9_Original ==
    [][\A f \in Fields, m \in ComputedNames :
          ChainCase(f, m) =>
             /\ m \in invoked'
             /\ \A d \in Readers(m) : Index(d) > Index(m) => d \in invoked'
             /\ \A d \in ComputedNames \ Dependents({f}) : d \notin invoked']_vars

\* C9 as amended: when a commit gives a new value to a raw field that only
\* an intermediate derivation reads, that derivation is re-invoked; a later
\* derivation that read it is re-invoked when its value changed; and the
\* derivations with a non-empty dependency set that depend on neither are
\* not re-invoked.
C9_Chaining ==
    [][\A f \in Fields, m \in ComputedNames :
          (ChainCase(f, m) /\ f \in DOMAIN rawState') =>
             /\ m \in invoked'
             /\ \A d \in Readers(m) :
                   (Index(d) > Index(m) /\ m \in ChangedComputed) => d \in invoked'
             /\ \A d \in ComputedNames \ Dependents({f}) :
                   deps[d] # {} => d \notin invoked']_vars

\* after a change of taxRate alone: tax and total re-invoked, the rest skipped
C9_Witness ==
    /\ changed = {"taxRate"}
    /\ "taxRate" \in DOMAIN rawState
    /\ invoked = {"tax", "total", "version"}
    /\ deps["total"] = {"price", "tax"}

\* the object a derivation is evaluated on: the raw state and the exposed
\* values of the derivations declared before it
ViewBefore(key) == Spread(rawState, [d \in Earlier(key) |-> exposedState[d]])

\* C10: after every commit each computed value of getState() is what its
\* derivation returns on the current raw state and the earlier derivations.
C10_NeverStale ==
    \A key \in ComputedNames : exposedState[key] = trackDeps(key, ViewBefore(key)).result

(***************************************************************************)
(* The infinite cache: claims C11 to C17 and C20 (under SpecPages,         *)
(* SpecPagesEvict and SpecInvalidate).                                     *)
(***************************************************************************)
\* the data of key's entry, and the data as a render reads it
DataOf(key) == infGetEntry(key).data
PagesOf(key) == IF DataOf(key) = NoData THEN <<>> ELSE DataOf(key).pages
ParamsOf(key) == IF DataOf(key) = NoData THEN <<>> ELSE DataOf(key).pageParams
\* the cursor fetchNext would ask for
NextCursor(key) == getNextPageParam(LastOf(PagesOf(key)), PagesOf(key))

\* C11 (SpecPages): a page whose request fetchNextPage or fetchPreviousPage
\* issued before a refetch of the key was issued never appears in the data
\* once that refetch has resolved: when such a request settles after the
\* refetch resolved, the data of the key stays what it was.
C11_RefetchDropsEarlierPages ==
    [][\A r \in infPending :
          (r.kind \in {"next", "prev"} /\ r.era = "stale" /\ r.key \in DOMAIN infCache
           /\ (NextResolve(r) \/ PrevResolve(r)))
          => infCache'[r.key].data = infCache[r.key].data]_vars

\* C12 (SpecPages): at most one next-page request is in flight per key, and
\* fetchNextPage issues nothing when the entry has no data or the cursor
\* after the last page is null or undefined.
C12_OneNextInFlight ==
    [][\A key \in Keys :
          /\ Cardinality({r \in infPending' : r.key = key /\ r.kind = "next"}) <= 1
          /\ (FetchNext(key) /\ (DataOf(key) = NoData \/ IsNullish(NextCursor(key))))
                => (infPending' = infPending /\ infIssued' = infIssued)]_vars

\* C13 (SpecPagesEvict): a fetchNextPage whose fetch resolves makes the
\* pages of the key the pages before it with the fetched page appended and
\* the pageParams the pageParams before it with the cursor used appended.
C13_NextAppendsOne ==
    [][\A r \in infPending :
          NextResolve(r) =>
             /\ DataOf(r.key) # NoData
             /\ infCache'[r.key].data # NoData
             /\ infCache'[r.key].data.pages = Append(PagesOf(r.key), PageFor(r.param))
             /\ infCache'[r.key].data.pageParams = Append(ParamsOf(r.key), r.param)]_vars

\* C14 (SpecPagesEvict): when the fetch of a fetchNextPage or of a
\* fetchPreviousPage rejects, the data of the entry (pages and pageParams)
\* is what it was before the rejection, the error of the entry is the
\* rejection (wrapped in an Error when it is none) and the fetching flag of
\* that direction is false.
C14_PageRejectionKeepsPages ==
    [][\A r \in infPending, e \in Rejections :
          /\ NextReject(r, e) =>
                /\ infCache'[r.key].data = DataOf(r.key)
                /\ infCache'[r.key].error = ToError(e)
                /\ ~infCache'[r.key].isFetchingNextPage
          /\ PrevReject(r, e) =>
                /\ infCache'[r.key].data = DataOf(r.key)
                /\ infCache'[r.key].error = ToError(e)
                /\ ~infCache'[r.key].isFetchingPreviousPage]_vars

\* a next-page fetch rejected on an entry with two pages: both still there
C14_Witness ==
    /\ last.op = "inf-next-rejected"
    /\ last.key \in DOMAIN infCache
    /\ PagesOf(last.key) = <<"a", "b">>
    /\ ParamsOf(last.key) = <<"a", Undefined>>
    /\ infCache[last.key].error # NoError
    /\ ~infCache[last.key].isFetchingNextPage

\* C15 (SpecPages): every entry that has data has as many pageParams as
\* pages, whatever sequence of ensure, prefetch, refetch, fetchNextPage,
\* fetchPreviousPage, invalidate and setQueryData (with lists of equal
\* length) produced it.
C15_SameLength ==
    \A key \in DOMAIN infCache :
       infCache[key].data # NoData =>
          Len(infCache[key].data.pages) = Len(infCache[key].data.pageParams)

\* three pages, grown at both ends
C15_Witness ==
    \E key \in DOMAIN infCache :
       /\ PagesOf(key) = <<"a", "b", "c">>
       /\ Len(ParamsOf(key)) = 3

\* C16 as stated: the first pageParam of every entry that has data is the
\* sentinel undefined, also after successful fetchPreviousPage calls.
C16_Original ==
    \A key \in DOMAIN infCache :
       infCache[key].data # NoData => FirstOf(infCache[key].data.pageParams) = Undefined

\* C16 as amended (SpecPages): an initial fetch or a refetch that is applied
\* leaves the sentinel undefined as the only pageParam; a successful
\* fetchNextPage on non-empty pages leaves the first pageParam what it was;
\* a successful fetchPreviousPage makes the first pageParam the cursor of
\* the page it prepended, which is neither null nor undefined.
C16_FirstCursor ==
    [][\A r \in infPending :
          /\ (InitialResolve(r) /\ infIsLatest(r.key, r.id))
                => infCache'[r.key].data.pageParams = <<Undefined>>
          /\ (NextResolve(r) /\ PagesOf(r.key) # <<>>)
                => FirstOf(infCache'[r.key].data.pageParams) = FirstOf(ParamsOf(r.key))
          /\ (PrevResolve(r) /\ DataOf(r.key) # NoData)
                => /\ FirstOf(infCache'[r.key].data.pageParams) = r.param
                   /\ ~IsNullish(r.param)]_vars

\* a page was prepended to the first page: its cursor is the first pageParam
C16_Witness ==
    \E key \in DOMAIN infCache :
       /\ PagesOf(key) = <<"a", "b">>
       /\ ParamsOf(key) = <<"a", Undefined>>

\* C17 (SpecPages): the hasNextPage a read returns is true exactly when the
\* entry has data with at least one page and getNextPageParam of the last
\* page and the pages is neither null nor undefined.
C17_HasNextDerived ==
    \A key \in DOMAIN infCache :
       hasNextPage(infSnapshotOf(key).data)
          <=> /\ DataOf(key) # NoData
              /\ Len(PagesOf(key)) >= 1
              /\ ~IsNullish(NextCursor(key))

\* a read that returns an earlier snapshot object after the last page arrived
C17_Witness ==
    \E key \in DOMAIN infCache :
       /\ PagesOf(key) = <<"b", "c">>
       /\ infSnapshotOf(key) # infGetEntry(key)
       /\ ~hasNextPage(infSnapshotOf(key).data)

\* what invalidate and invalidateAll do to the entries
InvalidateFrame ==
    \A key \in Keys :
       /\ (Invalidate(key) /\ key \in DOMAIN infCache)
             => /\ DOMAIN infCache' = DOMAIN infCache
                /\ infCache'[key] = [infCache[key] EXCEPT !.fetchedAt = 0]
       /\ (Invalidate(key) /\ key \notin DOMAIN infCache) => infCache' = infCache
       /\ InvalidateAll
             => /\ DOMAIN infCache' = DOMAIN infCache
                /\ \A k \in DOMAIN infCache :
                      infCache'[k] = [infCache[k] EXCEPT !.fetchedAt = 0]
\* the step is the first non-forced ensure of key after its invalidation
EnsureAfterInvalidate(key) ==
    /\ last.op = "inf-invalidate"
    /\ last.key \in {key, ""}
    /\ key \in DOMAIN infCache
    /\ FetchInitial(key, FALSE)

C18_RollbackRestores ==
    [][\A i \in 1..Len(optimistic), e \in Rejections :
          MutationReject(i, e) =>
             cache'[optimistic[i].key].data = optimistic[i].snapshot]_vars

\* a rollback to fetched data after another write had replaced the
\* optimistic data
C18_Witness ==
    /\ last.op = "opt-rollback"
    /\ optimistic[last.id].overwrote
    /\ optimistic[last.id].snapshot \in Payloads
    /\ optimistic[last.id].optimisticData # optimistic[last.id].snapshot
    /\ cache[last.key].data = optimistic[last.id].snapshot

\* C19: optimisticUpdate applies updater(previous data) before it calls
\* mutationFn; on success it calls onSuccess(result) then onSettled, leaves
\* the cache as it is and its promise resolves to the result; on failure it
\* rolls back, then calls onError(error, snapshot data), then onSettled, and
\* its promise rejects with the error; onSettled is called once, last.
C19_CallbackOrder ==
    [][/\ \A i \in 1..Len(optimistic') :
             LET u == optimistic'[i]
                 after == SubSeq(u.calls, 3, Len(u.calls))
             IN  /\ SubSeq(u.calls, 1, 2) = <<Call("updater", <<u.snapshot>>),
                                              Call("mutationFn", <<>>)>>
                 /\ u.promise = "pending" => after = <<>>
                 /\ u.promise = "fulfilled" =>
                       after = <<Call("onSuccess", <<u.value>>), Call("onSettled", <<>>)>>
                 /\ u.promise = "rejected" =>
                       after = <<Call("rollback", <<u.snapshot>>),
                                 Call("onError", <<u.value, u.snapshot>>),
                                 Call("onSettled", <<>>)>>
       /\ \A key \in Keys, updater \in Updaters :
             OptimisticUpdate(key, updater) =>
                /\ cache'[key].data = applyUpdater(updater, getEntry(cache, key).data)
                /\ optimistic'[Len(optimistic')].promise = "pending"
       /\ \A i \in 1..Len(optimistic), result \in MutationResults :
             MutationResolve(i, result) =>
                /\ cache' = cache
                /\ optimistic'[i].promise = "fulfilled"
                /\ optimistic'[i].value = result
       /\ \A i \in 1..Len(optimistic), e \in Rejections :
             MutationReject(i, e) =>
                /\ optimistic'[i].promise = "rejected"
                /\ optimistic'[i].value = e]_vars

\* an optimistic update of fetched data succeeded: its promise resolved to
\* the result, onSuccess and onSettled were called, the optimistic data stays
C19_Witness ==
    \E i \in 1..Len(optimistic) :
       /\ optimistic[i].promise = "fulfilled"
       /\ optimistic[i].value = "ok"
       /\ Len(optimistic[i].calls) = 4
       /\ optimistic[i].snapshot \in Payloads
       /\ optimistic[i].optimisticData # optimistic[i].snapshot
       /\ cache[optimistic[i].key].data = optimistic[i].optimisticData

(***************************************************************************)
(* setQueryData and getQueryData of the infinite hook: claim C21 (under    *)
(* SpecSetData).                                                           *)
(***************************************************************************)
\* the entry holds data written or fetched less than staleTime ago
WithinStaleTime(key) ==
    /\ key \in DOMAIN infCache
    /\ infCache[key].data # NoData
    /\ infCache[key].fetchedAt > 0
    /\ now - infCache[key].fetchedAt < staleTime

\* C21: setQueryData(key, v) sets the data of the key to v, or to
\* updater(previous data), and fetchedAt to now, leaves the rest of the entry
\* as it is, makes the next read of a listener see the new data and calls
\* config.fn for nothing; getQueryData(key) right after it returns the new
\* data; getQueryData of a key without entry returns undefined and creates
\* no entry; a non-forced ensure of an entry whose data is less than
\* staleTime old changes nothing and calls config.fn for nothing.
C21_SetQueryData ==
    [][\A key \in Keys :
          /\ \A updater \in QueryDataValues \cup QueryDataUpdaters :
                SetQueryData(key, updater) =>
                   /\ infCache'[key] =
                         [infGetEntry(key) EXCEPT
                             !.data = IF updater \in QueryDataUpdaters
                                      THEN firstPageOnly(infGetEntry(key).data)
                                      ELSE updater,
                             !.fetchedAt = now]
                   /\ infSnapshotCache'[key].snapshot.data = infCache'[key].data
                   /\ infIssued' = infIssued
                   /\ infPending' = infPending
          /\ (last.op = "inf-set" /\ last.key = key /\ GetQueryData(key))
                => (last'.returned = infCache[key].data /\ last'.returned # NoData)
          /\ (key \notin DOMAIN infCache /\ GetQueryData(key))
                => (last'.returned = NoData /\ key \notin DOMAIN infCache')
          /\ (WithinStaleTime(key) /\ FetchInitial(key, FALSE))
                => (infCache' = infCache /\ infIssued' = infIssued
                    /\ infPending' = infPending)]_vars

\* data that only setQueryData can have put there (config.fn was never
\* called), written at time 1; at time 2 a non-forced ensure was a no-op
C21_Witness ==
    /\ last.op = "inf-skip"
    /\ infIssued = 0
    /\ now = 2
    /\ infCache[last.key].data = [pages |-> <<"b">>, pageParams |-> <<Undefined>>]
    /\ infCache[last.key].fetchedAt = 1
    /\ ~infCache[last.key].loading

(***************************************************************************)
(* The query cache: claim C30 (under SpecSettle).                          *)
(***************************************************************************)
\* C30: a refetch (force) of a key whose entry is loading calls config.fn
\* again under a new request id, larger than every id allocated before,
\* which becomes the in-flight id of the key; and the request it superseded,
\* when it resolves later, changes nothing in the cache.
C30_RefetchSupersedes ==
    [][/\ \A key \in Keys :
             (getEntry(cache, key).loading /\ FetchData(key, TRUE)) =>
                /\ nextRequestId' > nextRequestId
                /\ key \in DOMAIN inflightId => nextRequestId' > inflightId[key]
                /\ inflightId'[key] = nextRequestId'
                /\ Issued = {[key |-> key, id |-> nextRequestId']}
       /\ \A r \in pending, data \in ResolveValues :
             (/\ Resolve(r, data)
              /\ r.key \in DOMAIN inflightId
              /\ inflightId[r.key] > r.id)
             => (cache' = cache /\ snapshotCache' = snapshotCache)]_vars

\* the first request resolved while the refetch that superseded it is still
\* in flight: discarded, the entry still loading without data
C30_Witness ==
    /\ last.op = "discarded"
    /\ last.id = 1
    /\ inflightId[last.key] = 2
    /\ [key |-> last.key, id |-> 2] \in pending
    /\ promise[1] = "fulfilled"
    /\ cache[last.key].loading
    /\ cache[last.key].data = Undefined


(***************************************************************************)
(* The mutation hook: claim C22 (under SpecMutation).                      *)
(***************************************************************************)
\* invocation i's fn rejects in this step
FnRejects(i) ==
    /\ i \in 1..Len(mutation.runs)
    /\ mutation.runs[i].fn.status = "pending"
    /\ mutation'.runs[i].fn.status = "rejected"

\* C22: when a mutation's fn rejects with e, the instance state becomes the
\* previous state with loading false and error e, onError is called once with
\* e and then onSettled once with (undefined, e); the promise of mutateAsync
\* rejects with the same e, while mutate lets no rejection out, so that the
\* error is seen only in the state and the callbacks.
C22_MutationRejects ==
    [][\A i \in 1..Len(mutation.runs) :
          FnRejects(i) =>
            LET e == mutation'.runs[i].fn.value
            IN  /\ mutation'.state = [mutation.state EXCEPT !.loading = FALSE, !.error = e]
                /\ mutation'.calls = mutation.calls \o
                      <<Call("onError", <<e>>), Call("onSettled", <<Undefined, e>>)>>
                /\ mutation.runs[i].via = "mutateAsync" =>
                      mutation'.runs[i].returned = Promise("rejected", e)
                /\ mutation.runs[i].via = "mutate" =>
                      mutation'.runs[i].returned.status \notin {"rejected", "pending"}]_vars

\* a mutateAsync has failed and its promise rejected, then a mutate failed
\* and the instance holds the second error
C22_Witness ==
    /\ Len(mutation.runs) = 2
    /\ mutation.runs[1].via = "mutateAsync" /\ mutation.runs[1].returned.status = "rejected"
    /\ mutation.runs[2].via = "mutate" /\ mutation.runs[2].fn.status = "rejected"
    /\ mutation.state.error = mutation.runs[2].fn.value
    /\ mutation.state.loading = FALSE


(***************************************************************************)
(* The store's listeners: claims C23 and C24 (under SpecNotify).           *)
(***************************************************************************)
\* this step is a call that committed a state: setState, a bound action or
\* an effect's set
Commits ==
    /\ call'.op \in {"setState", "action", "effect"}
    /\ ~call'.threw
    /\ cvars' # cvars

\* how often the call's pass invoked l
TimesInvoked(l, n) ==
    Cardinality({i \in 1..Len(n.invocations) : n.invocations[i].listener = l})

C24_PassOverSnapshot ==
    [][Commits =>
         \A l \in PlainListeners :
            TimesInvoked(l, notified') = IF l \in SeqSet(storeListeners) THEN 1 ELSE 0]_vars


(***************************************************************************)
(* Selector subscriptions: claim C25 (under SpecSelector).                 *)
(***************************************************************************)
\* the callback calls of l in what a call did
CallsOf(l, n) == SelectSeq(n.invocations, LAMBDA inv : inv.listener = l)

\* C25: the last delivered value of a selector subscription is the selected
\* value at subscribe time (which fireImmediately passes as both arguments)
\* or the first argument of its latest callback call. After each commit the
\* callback is called, once, if and only if equalityFn(selector(new state),
\* last delivered value) is false, with (new value, last delivered value);
\* a commit that leaves the selected value equal calls nothing and leaves
\* the last delivered value as it was.
C25_SelectorDelivery ==
    [][\A l \in SelectorListeners :
          /\ (l \notin SeqSet(storeListeners) /\ l \in SeqSet(storeListeners')) =>
                /\ previousValue'[l] = selector(l, exposedState)
                /\ \A i \in 1..Len(CallsOf(l, notified')) :
                      CallsOf(l, notified')[i].args =
                         <<selector(l, exposedState), selector(l, exposedState)>>
          /\ (Commits /\ l \in SeqSet(storeListeners)) =>
                LET new == selector(l, exposedState')
                    delivered == previousValue[l]
                IN  IF equalityFn(l, new, delivered)
                    THEN /\ CallsOf(l, notified') = <<>>
                         /\ previousValue'[l] = delivered
                    ELSE /\ Len(CallsOf(l, notified')) = 1
                         /\ CallsOf(l, notified')[1].args = <<new, delivered>>
                         /\ previousValue'[l] = new]_vars

\* a commit set price to 2 and the callback of the subscription with the
\* custom equality was called with 2 and with 0, the value delivered last
C25_Witness ==
    /\ "selNear" \in SeqSet(storeListeners)
    /\ Get(rawState, "price") = 2
    /\ Len(CallsOf("selNear", notified)) = 1
    /\ CallsOf("selNear", notified)[1].args = <<2, 0>>
    /\ changed = {"price"}


(***************************************************************************)
(* setState and the producer: claims C26 and C27 (under SpecDispatch).     *)
(***************************************************************************)
\* the step is a call of setState or of a bound action with a mutator
CallsMutator ==
    /\ call'.op \in {"setState", "action"}
    /\ "op" \in DOMAIN call'.arg
    /\ cvars' # cvars

\* the mutator of the call throws: by itself, or by writing to a property of
\* a raw state that is a number
MutatorThrows ==
    \/ call'.arg.op \in {"throw", "assignThenThrow"}
    \/ call'.arg.op = "assign" /\ IsPrimitive(rawState)

\* C26: when the mutator passed to setState or run by a bound action throws,
\* the call throws to its caller, getState() and the raw state that later
\* updates start from stay those of the last committed snapshot, no
\* listener is called and nothing is written to the storage.
C26_ThrowLeavesState ==
    [][(CallsMutator /\ MutatorThrows) =>
          /\ call'.threw
          /\ exposedState' = exposedState
          /\ rawState' = rawState
          /\ prevRawState' = prevRawState
          /\ cachedResults' = cachedResults
          /\ notified'.invocations = <<>>
          /\ ~notified'.wrote
          /\ storage' = storage
          /\ storeListeners' = storeListeners]_vars

\* an action's mutator wrote count = 2 to the draft and threw, on a store
\* with a listener whose committed count, also in the storage, is 1
C26_Witness ==
    /\ call.op = "action"
    /\ call.threw
    /\ call.arg.op = "assignThenThrow" /\ call.arg.value = 2
    /\ storeListeners = <<"b">>
    /\ Get(exposedState, "count") = 1
    /\ storage = Json(rawState, 1)
    /\ notified = NoNotify

\* the step is a call of setState that returned
SetStateReturns == call'.op = "setState" /\ ~call'.threw /\ cvars' # cvars

\* C27: setState dispatches on its argument. A function is applied as a
\* mutator of a draft and the new raw state holds its writes and nothing
\* else new; an object is merged: the fields it names take its values and
\* every other raw field keeps its value; any other value becomes the raw
\* state as it is.
C27_SetStateDispatch ==
    [][SetStateReturns =>
          LET arg == call'.arg
          IN  CASE "op" \in DOMAIN arg ->
                     /\ rawState' = produce(rawState, arg)
                     /\ \A f \in OwnKeys(rawState') \cup OwnKeys(rawState) :
                           f # arg.field => Get(rawState', f) = Get(rawState, f)
                     /\ arg.op = "assign" => Get(rawState', arg.field) = arg.value
                     /\ arg.op = "delete" => arg.field \notin OwnKeys(rawState')
                [] IsPrimitive(arg) -> rawState' = arg
                [] OTHER ->
                     /\ OwnKeys(rawState') = OwnKeys(rawState) \cup DOMAIN arg
                     /\ ~IsPrimitive(rawState')
                     /\ \A f \in OwnKeys(rawState') :
                           rawState'[f] = IF f \in DOMAIN arg THEN arg[f] ELSE rawState[f]]_vars

\* setState(5) replaced a raw state of three fields by the number
C27_Witness ==
    /\ call.op = "setState"
    /\ IsPrimitive(call.arg)
    /\ rawState = Primitive(5)
    /\ OwnKeys(exposedState) = ComputedNames
    /\ storage = Json(Primitive(5), 1)


(***************************************************************************)
(* persist: claims C28 and C29 (under SpecPersist).                        *)
(***************************************************************************)
\* the store was just created: the default state it was given, and the
\* storage item it found
JustCreated == call.op = "create"
Persisted == storage.state

\* what the claim gives as the raw state after creation
HydratedAsClaimed ==
    CASE storage.kind # "json" -> call.arg
      [] storage.version = persist.version -> merge(persist, Persisted, call.arg)
      [] persist.migrate # "none" ->
           merge(persist, migrate(persist, Persisted, storage.version), call.arg)
      [] OTHER -> call.arg

\* the default merge: the persisted fields win over the default state's
DefaultMergeAsClaimed ==
    (persist.merge = "none" /\ storage.kind = "json" /\ storage.version = persist.version)
       => \A f \in Fields :
             Get(rawState, f) = IF f \in DOMAIN Persisted THEN Persisted[f] ELSE call.arg[f]

\* each computed value is what its derivation returns on the raw state
Rederived ==
    \A key \in ComputedNames : exposedState[key] = trackDeps(key, ViewBefore(key)).result

\* C28: a store created with persist has as raw state the default state
\* when the storage has no item or an unparsable one, merge(persisted,
\* default) when the stored version is the configured one,
\* merge(migrate(persisted, storedVersion), default) when it differs and
\* migrate is given, the default state when it differs and migrate is not
\* given; the default merge is shallow and persisted fields win; the
\* computed values are derived from the hydrated state.
C28_Hydration ==
    JustCreated => (rawState = HydratedAsClaimed /\ DefaultMergeAsClaimed /\ Rederived)

C31_EmptyDepsAlwaysRun ==
    /\ invoked = ComputedNames
    /\ [][\A key \in DOMAIN deps : deps[key] = {} => key \in invoked']_vars

\* a pass in which no field changed: only the derivation that reads nothing
\* was invoked
C31_Witness ==
    /\ deps["version"] = {}
    /\ changed = {}
    /\ invoked = {"version"}


(***************************************************************************)
(* The query cache with setQueryData and invalidate: claim C32 (under      *)
(* SpecLoading).                                                           *)
(***************************************************************************)
\* the latest request issued for key has not settled
LatestPending(key) == [key |-> key, id |-> lastIssued[key]] \in pending

\* C32: an entry of the query cache is loading exactly while the latest
\* request issued for its key has not settled; the flag of an entry changes
\* only when a request for its key is issued or the latest one settles, so
\* setQueryData, invalidate, eviction passes and resolutions of superseded
\* requests leave it as it is.
C32_LoadingIffLatestPending ==
    /\ [](\A key \in DOMAIN cache : cache[key].loading <=> LatestPending(key))
    /\ [][\A key \in (DOMAIN cache) \cap (DOMAIN cache') :
             cache'[key].loading # cache[key].loading =>
                \/ lastIssued'[key] # lastIssued[key]
                \/ LatestPending(key) /\ ~LatestPending(key)']_vars

\* a refetch of k1 is in flight, the request it superseded has settled, and
\* the loading entry holds data written at the current time
C32_Witness ==
    /\ lastIssued["k1"] = 2
    /\ [key |-> "k1", id |-> 2] \in pending
    /\ [key |-> "k1", id |-> 1] \notin pending
    /\ cache["k1"].loading
    /\ cache["k1"].data = "d1"
    /\ cache["k1"].fetchedAt = now


(***************************************************************************)
(* The query cache: claim C33 (under SpecLoadingFair).                     *)
(***************************************************************************)
Loading(key) == key \in DOMAIN cache /\ cache[key].loading

IdleKeys == {key \in DOMAIN cache : evictable(key)}

\* C34: whenever no deferred eviction pass is pending, at most maxCacheSize
\* entries of the cache have zero listeners and are not loading.
C34_IdleWithinCeiling == evictQueue = 0 => Cardinality(IdleKeys) <= maxCacheSize

\* the key of request r has no in-flight id, or another one: since issuing r
\* recorded r's id, the key was evicted or a newer request was issued since
Outlived(r) == r.key \notin DOMAIN inflightId \/ inflightId[r.key] # r.id

\* C35: an eviction of a key leaves every request of the key that is still
\* in flight without the key's in-flight id, such a request never gets it
\* back, whatever is issued or created for the key afterwards, and when it
\* settles the cache, the ledger and the snapshots are left as they are: it
\* creates no entry and modifies none.
C35_EvictedRequestDiscarded ==
    /\ [][\A r \in pending :
             r.key \in DOMAIN cache /\ r.key \notin DOMAIN cache' => Outlived(r)']_vars
    /\ [][\A r \in pending \cap pending' : Outlived(r) => Outlived(r)']_vars
    /\ [][\A r \in pending \ pending' :
             Outlived(r) => /\ cache' = cache
                            /\ accessOrder' = accessOrder
                            /\ snapshotCache' = snapshotCache]_vars

\* request 1 of k1 has just settled and was discarded; k1 has no in-flight
\* id although two requests were issued for it (it was evicted) and has no
\* entry
C35_Witness ==
    /\ last.op = "discarded" /\ last.key = "k1" /\ last.id = 1
    /\ lastIssued["k1"] = 2
    /\ "k1" \notin DOMAIN inflightId
    /\ "k1" \notin DOMAIN cache


(***************************************************************************)
(* Overlapping optimistic updates: claim C36 (under SpecOverlap).          *)
(***************************************************************************)
\* calls i < j of optimisticUpdate are the two calls made on their key, and j
\* was made while mutationFn of i was in flight
Overlapping(i, j) ==
    /\ i < j
    /\ optimistic[i].key = optimistic[j].key
    /\ i \in optimistic[j].during
    /\ \A k \in 1..Len(optimistic) : optimistic[k].key = optimistic[i].key => k \in {i, j}

InFlightFor(r) ==
    /\ r.kind = "initial"
    /\ r.key \in DOMAIN infInflightId
    /\ infInflightId[r.key] = r.id

\* C37: setQueryData or invalidate on a key whose entry is loading leaves the
\* entry loading and the in-flight id and the pending calls as they are, and
\* when the call recorded as in flight resolves, the entry is the fetched
\* first page stamped with the time of the resolution, whatever was written.
C37_WriteDoesNotSupersede ==
    /\ [][\A key \in OneKey :
             /\ key \in DOMAIN infCache
             /\ infCache[key].loading
             /\ \/ \E updater \in QueryDataValues \cup QueryDataUpdaters :
                      SetQueryData(key, updater)
                \/ Invalidate(key)
             => /\ infCache'[key].loading
                /\ infInflightId' = infInflightId
                /\ infPending' = infPending]_vars
    /\ [][\A r \in infPending :
             InFlightFor(r) /\ InitialResolve(r)
             => infCache'[r.key] =
                   [data |-> [pages |-> <<PageFor(r.param)>>, pageParams |-> <<Undefined>>],
                    loading |-> FALSE, error |-> NoError, fetchedAt |-> now,
                    isFetchingNextPage |-> FALSE, isFetchingPreviousPage |-> FALSE]]_vars

\* setQueryData has just written an empty list of pages into the entry of
\* k1 while the call of fetchInitial recorded for k1 is pending: the entry
\* is still loading
C37_Witness ==
    /\ last.op = "inf-set" /\ last.key = "k1"
    /\ infCache["k1"].loading
    /\ infCache["k1"].data = [pages |-> <<>>, pageParams |-> <<>>]
    /\ infCache["k1"].fetchedAt = now
    /\ \E r \in infPending : InFlightFor(r)


(***************************************************************************)
(* The infinite cache, both directions in flight: claim C38 (under        *)
(* SpecPageFetch).                                                         *)
(***************************************************************************)
\* the calls of config.fn of one direction that are in flight for key
InFlight(key, kind) == {r \in infPending : r.key = key /\ r.kind = kind}
\* at most one call per direction is in flight for key
OnePerDirection(key) ==
    Cardinality(InFlight(key, "next")) <= 1 /\ Cardinality(InFlight(key, "prev")) <= 1
\* the cursors in flight for key in one direction, as a list
CursorsInFlight(key, kind) ==
    IF InFlight(key, kind) = {} THEN <<>>
    ELSE <<(CHOOSE r \in InFlight(key, kind) : TRUE).param>>
PageOfEach(cursors) == [i \in 1..Len(cursors) |-> PageFor(cursors[i])]
\* the list the entry will hold once the page calls in flight have
\* succeeded: the previous page, the pages, the next page
WholePages(key) ==
    PageOfEach(CursorsInFlight(key, "prev")) \o PagesOf(key)
       \o PageOfEach(CursorsInFlight(key, "next"))
WholeParams(key) ==
    CursorsInFlight(key, "prev") \o ParamsOf(key) \o CursorsInFlight(key, "next")

\* C38: with a fetchNextPage and a fetchPreviousPage of one key in flight,
\* each successful resolution moves its page from the calls in flight into
\* the list at its own end, so the list [previous page, pages..., next
\* page] and the matching pageParams are the same before and after each
\* resolution, whichever comes first: they are the final lists.
C38_BothDirectionsApplied ==
    [][\A r \in infPending :
          /\ r.kind \in {"next", "prev"}
          /\ OnePerDirection(r.key)
          /\ DataOf(r.key) # NoData
          /\ NextResolve(r) \/ PrevResolve(r)
          => /\ WholePages(r.key)' = WholePages(r.key)
             /\ WholeParams(r.key)' = WholeParams(r.key)]_vars

\* the next page was requested first (second call of config.fn) and is still
\* in flight, the previous page was requested after it (third call) and has
\* arrived: it stands in front of the first page
C38_Witness ==
    /\ infIssued = 3
    /\ \E r \in infPending : r.key = "k1" /\ r.kind = "next" /\ r.n = 2 /\ r.param = "c"
    /\ PagesOf("k1") = <<"a", "b">>
    /\ ParamsOf("k1") = <<"a", Undefined>>
    /\ WholePages("k1") = <<"a", "b", "c">>


(***************************************************************************)
(* The infinite cache, error and loading across page fetches: claim C39    *)
(* (under SpecPageFetch).                                                  *)
(***************************************************************************)
\* the error and loading fields of the entry getEntry(key) returns
ErrorAndLoading(key) == <<infGetEntry(key).error, infGetEntry(key).loading>>

\* issuing a page fetch and its successful resolution leave error and
\* loading as they are
PageFetchKeepsErrorAndLoading ==
    /\ \A key \in OneKey :
          FetchNext(key) \/ FetchPrevious(key) => ErrorAndLoading(key)' = ErrorAndLoading(key)
    /\ \A r \in infPending :
          NextResolve(r) \/ PrevResolve(r) => ErrorAndLoading(r.key)' = ErrorAndLoading(r.key)

\* the error of key is cleared in this step
ErrorCleared(key) ==
    /\ key \in DOMAIN infCache
    /\ infCache[key].error # NoError
    /\ infGetEntry(key)'.error = NoError

\* C39 as stated: issuing a fetchNextPage or fetchPreviousPage and its
\* successful resolution leave error and loading unchanged, and an error is
\* cleared only in a step that issues an initial fetch or a refetch.
C39_Original ==
    [][/\ PageFetchKeepsErrorAndLoading
       /\ \A key \in OneKey :
             ErrorCleared(key) => \E force \in BOOLEAN : FetchInitial(key, force)]_vars

\* C39 as amended: issuing a fetchNextPage or fetchPreviousPage and its
\* successful resolution leave error and loading unchanged, and an error is
\* cleared only by an initial fetch or a refetch, when it is issued or when
\* its result is applied.
C39_ErrorOutlivesPageFetch ==
    [][/\ PageFetchKeepsErrorAndLoading
       /\ \A key \in OneKey :
             ErrorCleared(key) =>
                \/ \E force \in BOOLEAN : FetchInitial(key, force)
                \/ \E r \in infPending : r.key = key /\ InitialResolve(r)]_vars

\* a next page has just arrived and was appended, and the entry still has
\* the error an earlier fetch left
C39_Witness ==
    /\ last.op = "inf-next-page" /\ last.key = "k1"
    /\ PagesOf("k1") = <<"b", "c">>
    /\ infCache["k1"].error # NoError
    /\ ~infCache["k1"].loading


(***************************************************************************)
(* The ledgers of the two caches: claim C40 (under SpecLedger).            *)
(***************************************************************************)
\* no key stands twice in the list
NoKeyTwice(order) == \A i, j \in 1..Len(order) : order[i] = order[j] => i = j

\* C40: in both caches the access-order ledger holds no key twice and only
\* keys that have a cache entry, and a step that removes a key's entry
\* leaves the key out of the ledger, the snapshot cache and the in-flight-id
\* map as well.
C40_LedgerSound ==
    /\ [](/\ NoKeyTwice(accessOrder)
          /\ SeqSet(accessOrder) \subseteq DOMAIN cache
          /\ NoKeyTwice(infAccessOrder)
          /\ SeqSet(infAccessOrder) \subseteq DOMAIN infCache)
    /\ [][\A key \in Keys :
             /\ (key \in DOMAIN cache /\ key \notin DOMAIN cache')
                   => /\ key \notin SeqSet(accessOrder')
                      /\ key \notin DOMAIN snapshotCache'
                      /\ key \notin DOMAIN inflightId'
             /\ (key \in DOMAIN infCache /\ key \notin DOMAIN infCache')
                   => /\ key \notin SeqSet(infAccessOrder')
                      /\ key \notin DOMAIN infSnapshotCache'
                      /\ key \notin DOMAIN infInflightId']_vars

\* a pass of the query cache has just removed k1, which had been fetched:
\* k1 is in none of the four, and k2 is what the ledger holds
C40_Witness ==
    /\ last.op = "evict" /\ "k1" \in last.removed
    /\ lastIssued["k1"] > 0
    /\ "k1" \notin DOMAIN cache
    /\ "k1" \notin DOMAIN snapshotCache
    /\ "k1" \notin DOMAIN inflightId
    /\ accessOrder = <<"k2">>

====
